---------------------------- MODULE Spec2Model ----------------------------
(***************************************************************************)
(* Model of the starred-repositories dashboard: the Link-header parsers,   *)
(* the request validation schemas, the /api/starred route (GET), the       *)
(* /api/export route (POST) and the dashboard's load-all handler.          *)
(*                                                                         *)
(* Strings are modelled structurally.  A short string (a username, a       *)
(* number literal) is a sequence of one-character tokens.  A Link header   *)
(* is what link.split(",") and p.split(";") make of it: a sequence of      *)
(* parts, each a sequence of sections, each section classified by what     *)
(* the parsers can observe of it.  A JavaScript number is a record         *)
(* [k, v] so that NaN, Infinity and undefined compare with integers.       *)
(***************************************************************************)
EXTENDS Integers, Sequences, FiniteSets, TLC

(***************************************************************************)
(* Bounds of the model.                                                    *)
(***************************************************************************)
MaxParts == 2      \* comma-separated entries of an enumerated Link header
MaxUserLen == 2    \* characters of an enumerated username
MaxShort == 3      \* short page chains have 1..MaxShort pages
MaxOver == 2       \* long page chains have PageCap-1 .. PageCap+MaxOver pages
MaxCell == 3       \* pieces of an enumerated field value
MaxRows == 2       \* records of an enumerated list
MaxOps == 2        \* handlers started on one page

(***************************************************************************)
(* Program constants.                                                      *)
(***************************************************************************)
PageCap == 100          \* for (let i = 0; i < 100; i++)
AllPerPage == 100       \* const per_page = 100 / const pp = 100
DefaultPage == 1
DefaultPerPage == 30
MinPage == 1
MinPerPage == 1
MaxPerPage == 100

(***************************************************************************)
(* JavaScript numbers and their conversion from and to strings.            *)
(***************************************************************************)
Int_(n) == [k |-> "int", v |-> n]
Frac(n) == [k |-> "frac", v |-> n]     \* a finite non-integer, floor n
Infinity == [k |-> "inf", v |-> 0]
NaN == [k |-> "nan", v |-> 0]
Undefined == [k |-> "undef", v |-> 0]

\* !!x for a number-or-undefined x
Truthy(x) == \/ x.k = "inf"
             \/ x.k = "frac"
             \/ x.k = "int" /\ x.v # 0

\* Number.isFinite(x)
IsFinite(x) == x.k \in {"int", "frac"}

DigitChars == <<"0", "1", "2", "3", "4", "5", "6", "7", "8", "9">>
IsDigit(c) == \E i \in 1..10 : DigitChars[i] = c
DigitVal(c) == (CHOOSE i \in 1..10 : DigitChars[i] = c) - 1
AllDigits(s) == \A i \in 1..Len(s) : IsDigit(s[i])

RECURSIVE DecVal(_)
DecVal(s) == IF s = <<>> THEN 0
             ELSE 10 * DecVal(SubSeq(s, 1, Len(s) - 1)) + DigitVal(s[Len(s)])

DotAt(s) == {i \in 1..Len(s) : s[i] = "."}

\* Number(s) for an unsigned literal s
UNumber(s) ==
  IF s = <<"Infinity">> THEN Infinity
  ELSE IF s # <<>> /\ AllDigits(s) THEN Int_(DecVal(s))
  ELSE IF Cardinality(DotAt(s)) = 1
    THEN LET d == CHOOSE i \in DotAt(s) : TRUE
             ip == SubSeq(s, 1, d - 1)
             fp == SubSeq(s, d + 1, Len(s))
         IN IF Len(s) > 1 /\ AllDigits(ip) /\ AllDigits(fp)
              THEN IF DecVal(fp) = 0 THEN Int_(DecVal(ip)) ELSE Frac(DecVal(ip))
              ELSE NaN
  ELSE NaN

\* the number a leading "-" makes of the unsigned number u
Negated(u) ==
  IF u.k = "int" THEN Int_(0 - u.v)
  ELSE IF u.k = "frac" THEN Frac(0 - u.v - 1)
  ELSE IF u.k = "inf" THEN [k |-> "inf", v |-> -1]
  ELSE NaN

\* Number(s): "" is 0, a decimal literal its value, anything else NaN
ToNumber(s) ==
  IF s = <<>> THEN Int_(0)
  ELSE IF Head(s) = "-" THEN Negated(UNumber(Tail(s)))
  ELSE UNumber(s)

RECURSIVE NatToStr(_)
NatToStr(n) == IF n < 10 THEN <<DigitChars[n + 1]>>
               ELSE NatToStr(n \div 10) \o <<DigitChars[(n % 10) + 1]>>

\* `${x}` for a number x
NumToStr(x) ==
  CASE x.k = "int" -> IF x.v < 0 THEN <<"-">> \o NatToStr(0 - x.v) ELSE NatToStr(x.v)
    [] x.k = "frac" -> NatToStr(x.v) \o <<".", "5">>
    [] x.k = "inf" -> IF x.v < 0 THEN <<"-", "Infinity">> ELSE <<"Infinity">>
    [] x.k = "nan" -> <<"NaN">>
    [] OTHER -> <<"undefined">>

(***************************************************************************)
(* Link headers.  A header value is null or a string; a string is the      *)
(* sequence of its comma-separated parts, a part the sequence of its       *)
(* semicolon-separated sections.  A section is                             *)
(*   "empty"  the empty string,                                            *)
(*   "url"    <URL>; wf says whether new URL() accepts the text between    *)
(*            the angle brackets, hasPage and page give its page query     *)
(*            parameter,                                                   *)
(*   "rel"    rel="name",                                                  *)
(*   "param"  any other parameter, such as title="x".                      *)
(***************************************************************************)
EmptySec == [k |-> "empty", wf |-> FALSE, hasPage |-> FALSE, page |-> <<>>, name |-> ""]
UrlSec(p) == [k |-> "url", wf |-> TRUE, hasPage |-> TRUE, page |-> p, name |-> ""]
UrlNoPage == [k |-> "url", wf |-> TRUE, hasPage |-> FALSE, page |-> <<>>, name |-> ""]
BadUrlSec(p) == [k |-> "url", wf |-> FALSE, hasPage |-> TRUE, page |-> p, name |-> ""]
RelSec(r) == [k |-> "rel", wf |-> FALSE, hasPage |-> FALSE, page |-> <<>>, name |-> r]
ParamSec == [k |-> "param", wf |-> FALSE, hasPage |-> FALSE, page |-> <<>>, name |-> ""]

NullLink == [isNull |-> TRUE, parts |-> <<>>]
StrLink(parts) == [isNull |-> FALSE, parts |-> parts]
EmptyLink == StrLink(<< <<EmptySec>> >>)        \* "".split(",") is [""]

\* !link
LinkFalsy(link) == link.isNull \/ link = EmptyLink

\* new URL(section[0].trim().replace(/[<>]/g, "")) does not throw
UrlParses(sec) == sec.k = "url" /\ sec.wf

\* pageStr ? Number(pageStr) : undefined, pageStr = url.searchParams.get("page")
PageNumOf(sec) == IF sec.hasPage /\ sec.page # <<>> THEN ToNumber(sec.page)
                  ELSE Undefined

\* section[1].trim().match(/rel="(.*)"/)
RelMatches(sec) == sec.k = "rel"

EmptyInfo == [r \in {} |-> Undefined]

\* info.next of a PageInfo object
InfoGet(info, r) == IF r \in DOMAIN info THEN info[r] ELSE Undefined

ParseOk(v) == [err |-> FALSE, val |-> v]
ParseThrows == [err |-> TRUE, val |-> EmptyInfo]

\* a loop that gives up at the first entry it cannot read
RECURSIVE ParseLinkPartsStopAtMalformed(_, _)
ParseLinkPartsStopAtMalformed(parts, info) ==
  IF parts = <<>> THEN info
  ELSE IF Len(Head(parts)) < 2 THEN info
  ELSE IF ~UrlParses(Head(parts)[1]) THEN info
  ELSE IF ~RelMatches(Head(parts)[2]) \/ ~Truthy(PageNumOf(Head(parts)[1]))
    THEN ParseLinkPartsStopAtMalformed(Tail(parts), info)
  ELSE ParseLinkPartsStopAtMalformed(Tail(parts),
                                     (Head(parts)[2].name :> PageNumOf(Head(parts)[1]))
                                       @@ info)

RECURSIVE ParseLinkParts(_, _)
ParseLinkParts(parts, info) ==
  IF parts = <<>> THEN info
  ELSE LET section == Head(parts)
       IN IF Len(section) < 2 THEN ParseLinkParts(Tail(parts), info)
          ELSE IF ~UrlParses(section[1]) THEN ParseLinkParts(Tail(parts), info)
          ELSE LET pageNum == PageNumOf(section[1])
               IN IF ~RelMatches(section[2]) \/ ~Truthy(pageNum)
                    THEN ParseLinkParts(Tail(parts), info)
                    ELSE ParseLinkParts(Tail(parts),
                                        (section[2].name :> pageNum) @@ info)

\* parseLinkHeader without its first line: null.split(",") throws a TypeError
ParseLinkHeaderNoGuard(link) ==
  IF link.isNull THEN ParseThrows
  ELSE ParseOk(ParseLinkParts(link.parts, EmptyInfo))

parseLinkHeader(link) ==
  IF LinkFalsy(link) THEN ParseOk(EmptyInfo)
  ELSE ParseOk(ParseLinkParts(link.parts, EmptyInfo))

RECURSIVE ParseNextParts(_)
ParseNextParts(parts) ==
  IF parts = <<>> THEN Undefined
  ELSE LET section == Head(parts)
       IN IF Len(section) < 2 THEN ParseNextParts(Tail(parts))
          ELSE IF ~RelMatches(section[2]) THEN ParseNextParts(Tail(parts))
          ELSE IF section[2].name # "next" THEN ParseNextParts(Tail(parts))
          ELSE IF ~UrlParses(section[1]) THEN ParseNextParts(Tail(parts))
          ELSE LET pageNum == PageNumOf(section[1])
               IN IF Truthy(pageNum) /\ IsFinite(pageNum) THEN pageNum
                  ELSE ParseNextParts(Tail(parts))

\* a parser that looks at the first entry only
parseNextFromLinkFirstEntry(link) ==
  IF LinkFalsy(link) THEN Undefined
  ELSE ParseNextParts(<<Head(link.parts)>>)

parseNextFromLink(link) ==
  IF LinkFalsy(link) THEN Undefined
  ELSE ParseNextParts(link.parts)


(***************************************************************************)
(* Short strings, optional values, messages.                               *)
(***************************************************************************)
Some(s) == [has |-> TRUE, s |-> s]
None == [has |-> FALSE, s |-> <<>>]

RECURSIVE TrimLeft(_)
TrimLeft(s) == IF s # <<>> /\ Head(s) = " " THEN TrimLeft(Tail(s)) ELSE s

RECURSIVE TrimRight(_)
TrimRight(s) == IF s # <<>> /\ s[Len(s)] = " "
                  THEN TrimRight(SubSeq(s, 1, Len(s) - 1)) ELSE s

\* String.prototype.trim
Trim(s) == TrimRight(TrimLeft(s))

\* encodeURIComponent on the model's alphabet: a space becomes %20
RECURSIVE encodeURIComponent(_)
encodeURIComponent(s) ==
  IF s = <<>> THEN <<>>
  ELSE (IF Head(s) = " " THEN <<"%20">> ELSE <<Head(s)>>) \o encodeURIComponent(Tail(s))

Msg(kind, status, text) == [kind |-> kind, status |-> status, text |-> text]
NoMsg == Msg("null", 0, "")

(***************************************************************************)
(* Validation schemas (zod).  A raw value is None (absent) or Some(s).     *)
(* Checks run in the order they are chained: min(1) sees the untrimmed     *)
(* string, trim() then rewrites it.  default(n) answers an absent input    *)
(* with n without running the inner schema.                                *)
(***************************************************************************)
\* z.string().min(1, "Username is required").trim()
UsernameSchema(raw) ==
  IF ~raw.has THEN [ok |-> FALSE, val |-> <<>>, msg |-> Msg("zod", 0, "Invalid input")]
  ELSE IF Len(raw.s) < 1
    THEN [ok |-> FALSE, val |-> <<>>, msg |-> Msg("zod", 0, "Username is required")]
  ELSE [ok |-> TRUE, val |-> Trim(raw.s), msg |-> NoMsg]

\* .pipe(z.number().int().min(lo).max(hi)) on the number n      (hi < 0: no max)
NumberPipe(n, lo, hi) ==
  IF n.k = "int" /\ n.v >= lo /\ (hi < 0 \/ n.v <= hi)
    THEN [ok |-> TRUE, val |-> n, msg |-> NoMsg]
    ELSE [ok |-> FALSE, val |-> n, msg |-> Msg("zod", 0, "Invalid input")]

\* z.string().optional().transform(v => v ? Number(v) : dflt).pipe(..).default(dflt)
NumberParamSchema(raw, dflt, lo, hi) ==
  IF ~raw.has THEN [ok |-> TRUE, val |-> Int_(dflt), msg |-> NoMsg]
  ELSE NumberPipe(IF raw.s # <<>> THEN ToNumber(raw.s) ELSE Int_(dflt), lo, hi)

PageSchema(raw) == NumberParamSchema(raw, DefaultPage, MinPage, 0 - 1)

\* per_page without its .max(100)
PerPageSchemaNoMax(raw) == NumberParamSchema(raw, DefaultPerPage, MinPerPage, 0 - 1)

PerPageSchema(raw) == NumberParamSchema(raw, DefaultPerPage, MinPerPage, MaxPerPage)

\* z.object of the three fields' results; the message is issues[0].message
StarredQueryObject(u, p, pp) ==
  [ok |-> u.ok /\ p.ok /\ pp.ok,
   username |-> u.val, page |-> p.val, per_page |-> pp.val,
   msg |-> IF ~u.ok THEN u.msg ELSE IF ~p.ok THEN p.msg ELSE pp.msg]

\* starredQuerySchema.parse(raw)
starredQuerySchema(raw) ==
  StarredQueryObject(UsernameSchema(raw.username), PageSchema(raw.page),
                     PerPageSchema(raw.per_page))

Formats == {"json", "csv"}

\* z.enum(["json", "csv"]).optional().default("json"); "absent" is a missing key
FormatSchema(f) ==
  IF f = "absent" THEN [ok |-> TRUE, val |-> "json", msg |-> NoMsg]
  ELSE IF f \in Formats THEN [ok |-> TRUE, val |-> f, msg |-> NoMsg]
  ELSE [ok |-> FALSE, val |-> f, msg |-> Msg("zod", 0, "Invalid input")]

\* z.object of the two fields' results
ExportRequestObject(u, f) ==
  [ok |-> u.ok /\ f.ok, username |-> u.val, format |-> f.val,
   msg |-> IF ~u.ok THEN u.msg ELSE f.msg]

\* exportRequestSchema.parse(json)
exportRequestSchema(raw) ==
  ExportRequestObject(UsernameSchema(raw.username), FormatSchema(raw.format))


(***************************************************************************)
(* State.                                                                  *)
(*   srv     the upstream source (GitHub), fixed for a behaviour           *)
(*   req     the request or click that arrives                             *)
(*   upLog   the upstream requests issued so far                           *)
(*   post    the frame of the export route's POST handler                  *)
(*   resp    the response of the route that was called (GET or POST)       *)
(*   files   the artifacts stars.json and stars.csv                        *)
(*   fa      the frame of the dashboard's handleFetchAll                   *)
(*   items, error, loadingAll, currentUser, page, perPage, pageInfo, rate  *)
(*           the dashboard's React state                                   *)
(*   link, linkPerm, called, info, infoPerm, nextPage, nextPagePerm        *)
(*           a Link header, a permutation of it, and what the two parsers  *)
(*           return for each                                               *)
(*   cell, escaped, escapedUi                                              *)
(*           a field value and what csvEscape and esc make of it           *)
(*   repos, csvText, csvUiText, csvCalled                                  *)
(*           a list of records, what toCSV makes of it and what            *)
(*           toCSVFromRepos makes of the normalized list                   *)
(***************************************************************************)
VARIABLES srv, req, upLog, post, resp, files,
          fa, items, error, loadingAll, currentUser, page, perPage, pageInfo, rate,
          link, linkPerm, called, info, infoPerm, nextPage, nextPagePerm,
          cell, escaped, escapedUi, repos, csvText, csvUiText, csvCalled,
          variant, form, loading, exporting, ops, origin, lastDone

routeVars == <<srv, req, upLog, post, resp, files>>
uiVars == <<fa, items, error, loadingAll, currentUser, page, perPage, pageInfo, rate>>
parseVars == <<link, linkPerm, called, info, infoPerm, nextPage, nextPagePerm>>
csvVars == <<cell, escaped, escapedUi, repos, csvText, csvUiText, csvCalled>>
homeVars == <<variant, form, loading, exporting, ops, origin, lastDone>>
vars == <<routeVars, uiVars, parseVars, csvVars, homeVars>>

(***************************************************************************)
(* The upstream source.  srv.len > 0: pages 1..len, page p < len pointing  *)
(* to p+1.  srv.cyc > 0: every page p points to (p % cyc) + 1.  A request  *)
(* for page srv.failPage is answered with a non-success status             *)
(* (failKind "status") or not answered at all (failKind "throw").          *)
(***************************************************************************)
NullNum == [k |-> "null", v |-> 0]

\* The values of a record's fields: null, undefined (an absent key), a number
\* or a string.  A string is the sequence of its pieces: a piece is a comma,
\* a double quote, a line feed ("LF"), a carriage return ("CR") or a run of
\* other characters.
NullStr == [t |-> "null", n |-> 0, s |-> <<>>]
UndefinedVal == [t |-> "undefined", n |-> 0, s |-> <<>>]
NumVal(n) == [t |-> "number", n |-> n, s |-> <<>>]
Str(s) == [t |-> "string", n |-> 0, s |-> s]

\* r.owner: an object, or a missing owner
Owner(login, avatar_url, html_url) ==
  [t |-> "object", login |-> login, avatar_url |-> avatar_url, html_url |-> html_url]
NoOwner == [t |-> "undefined", login |-> UndefinedVal, avatar_url |-> UndefinedVal,
            html_url |-> UndefinedVal]

\* a record of GET /users/{user}/starred
RawRepo(id) ==
  [id |-> NumVal(id), name |-> Str(<<"repo">>), full_name |-> Str(<<"octo/repo">>),
   html_url |-> Str(<<"https://github.com/octo/repo">>),
   description |-> IF id % 2 = 0 THEN NullStr ELSE Str(<<"a repo", ",", "starred">>),
   stargazers_count |-> NumVal(id * 10),
   language |-> IF id % 3 = 0 THEN NullStr ELSE Str(<<"TypeScript">>),
   owner |-> Owner(Str(<<"octo">>), Str(<<"https://avatars/octo">>),
                   Str(<<"https://github.com/octo">>))]

\* the ids on page p: consecutive early pages share an id, as happens when
\* the list shifts between two fetches
PageIds(p) == IF p <= 2 THEN <<p, p + 1>> ELSE <<p + 1>>

HasPage(s, p) == IF s.cyc > 0 THEN p \in 1..s.cyc ELSE p \in 1..s.len
NextOf(s, p) == IF s.cyc > 0 THEN (p % s.cyc) + 1
                ELSE IF p < s.len THEN p + 1 ELSE 0
LastOf(s) == IF s.cyc > 0 THEN s.cyc ELSE s.len

PageRecords(s, p) ==
  IF HasPage(s, p) THEN [j \in 1..Len(PageIds(p)) |-> RawRepo(PageIds(p)[j])]
  ELSE <<>>

LinkEntry(p, r) == <<UrlSec(NatToStr(p)), RelSec(r)>>

\* a response carries a Link header only when it has an entry to give
LinkHeader(parts) == IF parts = <<>> THEN NullLink ELSE StrLink(parts)

\* the unusual Link headers: two next entries, a next entry whose page is
\* Infinity, a next entry whose rel is its second parameter
OddLink(s) ==
  CASE s.odd = "twoNext" ->
         StrLink(<<LinkEntry(2, "next"), LinkEntry(3, "next"), LinkEntry(LastOf(s), "last")>>)
    [] s.odd = "infNext" -> StrLink(<< <<UrlSec(<<"Infinity">>), RelSec("next")>> >>)
    [] OTHER -> StrLink(<< <<UrlSec(<<"2">>), ParamSec, RelSec("next")>> >>)

\* the Link header of page p
LinkOf(s, p) ==
  IF s.odd # "plain" /\ p = 1 THEN OddLink(s)
  ELSE
  LinkHeader((IF p > 1 THEN <<LinkEntry(p - 1, "prev")>> ELSE <<>>)
             \o (IF NextOf(s, p) > 0
                   THEN <<LinkEntry(NextOf(s, p), "next"), LinkEntry(LastOf(s), "last")>>
                   ELSE <<>>)
             \o (IF p > 1 THEN <<LinkEntry(1, "first")>> ELSE <<>>))

RateHeaders(p) == [limit |-> Some(<<"6", "0">>),
                   remaining |-> Some(NatToStr(60 - (p % 60))),
                   reset |-> None]

\* the page a page parameter n asks for: anything but an integer >= 1 is page 1
RequestedPage(n) == IF n.k = "int" /\ n.v >= 1 THEN n.v ELSE 1

\* the upstream answer for page p
GitHubPage(s, p) ==
  IF s.failPage = p
    THEN [kind |-> s.failKind, status |-> s.failStatus, text |-> "upstream says no",
          records |-> <<>>, link |-> NullLink, rateH |-> RateHeaders(p)]
    ELSE [kind |-> "ok", status |-> 200, text |-> "",
          records |-> PageRecords(s, p), link |-> LinkOf(s, p),
          rateH |-> RateHeaders(p)]

\* the upstream answer to u = [user, page, per_page], the URL's three slots
GitHub(s, u) == GitHubPage(s, RequestedPage(ToNumber(u.page)))

\* `${GITHUB_API_BASE}/users/${encodeURIComponent(username)}/starred?page=..&per_page=..`
UpstreamUrl(username, pageNum, perPageNum) ==
  [user |-> encodeURIComponent(username), page |-> NumToStr(pageNum),
   per_page |-> NumToStr(perPageNum)]

(***************************************************************************)
(* GET /api/starred                                                        *)
(***************************************************************************)
\* the normalizer of the route
Normalize(r) ==
  [id |-> r.id, name |-> r.name, fullName |-> r.full_name, url |-> r.html_url,
   description |-> r.description, stars |-> r.stargazers_count,
   language |-> r.language,
   owner |-> [login |-> r.owner.login, avatarUrl |-> r.owner.avatar_url,
              url |-> r.owner.html_url]]

\* a map that hands the items back last to first
NormalizeAllBackwards(rs) == [j \in 1..Len(rs) |-> Normalize(rs[Len(rs) + 1 - j])]

\* data.map(normalizer)
NormalizeAll(rs) == [j \in 1..Len(rs) |-> Normalize(rs[j])]

\* limit ? Number(limit) : null
RateField(h) == IF h.has /\ h.s # <<>> THEN ToNumber(h.s) ELSE NullNum

RateOf(h) == [null |-> FALSE, limit |-> RateField(h.limit),
              remaining |-> RateField(h.remaining), reset |-> RateField(h.reset)]
NullRate == [null |-> TRUE, limit |-> NullNum, remaining |-> NullNum, reset |-> NullNum]

NoResp == [status |-> 0, ok |-> FALSE, error |-> NoMsg, items |-> <<>>,
           link |-> NullLink, rate |-> NullRate, count |-> 0, format |-> "", path |-> ""]
\* a failure that is always answered 400
ErrorRespBadRequest(status, msg) == [NoResp EXCEPT !.status = 400, !.error = msg]

\* NextResponse.json({ error: msg }, { status })
ErrorResp(status, msg) == [NoResp EXCEPT !.status = status, !.error = msg]

\* lines 45-90: the response made of the upstream answer res to the request url
StarredAnswer(url, res) ==
  IF res.kind = "throw"
    THEN [resp |-> ErrorResp(400, Msg("thrown", 0, "fetch failed")), reqs |-> <<url>>]
  ELSE IF res.kind = "status"
    THEN [resp |-> ErrorResp(res.status, Msg("GitHub API error", res.status, res.text)),
          reqs |-> <<url>>]
  ELSE [resp |-> [NoResp EXCEPT !.status = 200, !.ok = TRUE,
                                !.items = NormalizeAll(res.records),
                                !.link = res.link, !.rate = RateOf(res.rateH)],
        reqs |-> <<url>>]

\* lines 34-43: the request url is sent upstream
StarredFetch(s, url) == StarredAnswer(url, GitHub(s, url))

\* lines 23-32 and 91-96: a query that does not validate is answered 400 with
\* no fetch, a valid one makes the request url
StarredValidated(s, parsed) ==
  IF ~parsed.ok THEN [resp |-> ErrorResp(400, parsed.msg), reqs |-> <<>>]
  ELSE StarredFetch(s, UpstreamUrl(parsed.username, parsed.page, parsed.per_page))

\* the GET handler on query raw: its response and the upstream requests it makes
StarredGET(s, raw) == StarredValidated(s, starredQuerySchema(raw))


(***************************************************************************)
(* POST /api/export                                                        *)
(***************************************************************************)
PostIdle == [pc |-> "idle", username |-> <<>>, format |-> "json",
             page |-> Int_(1), i |-> 0, all |-> <<>>, exit |-> "none"]

\* a loop whose cap is checked one iteration late
LoopGuardLate(i) == i <= PageCap

\* i < 100, the condition of both aggregation loops
LoopGuard(i) == i < PageCap

\* the cap tested before the next pointer
ExitReasonCapFirst(hasNext, i2) ==
  IF ~(i2 < PageCap) THEN "cap" ELSE IF hasNext THEN "none" ELSE "break"

\* how an iteration that got a page ends: "break" when the page has no next
\* pointer, "none" (go round again) while i + 1 < 100, "cap" when the for
\* condition ends the loop
ExitReason(hasNext, i2) ==
  IF ~hasNext THEN "break" ELSE IF LoopGuard(i2) THEN "none" ELSE "cap"

RECURSIVE Dedup(_, _)
Dedup(all, chunk) ==
  IF chunk = <<>> THEN all
  ELSE Dedup(IF \E j \in 1..Len(all) : all[j].id = Head(chunk).id
               THEN all ELSE Append(all, Head(chunk)),
             Tail(chunk))

\* a push that skips the records already collected
PushChunkDedup(all, chunk) == Dedup(all, chunk)

\* if (Array.isArray(chunk) && chunk.length > 0) all.push(...chunk)
PushChunk(all, chunk) == IF Len(chunk) > 0 THEN all \o chunk ELSE all

\* JSON.stringify(all)
JSONStringify(all) == [fmt |-> "json", data |-> all]

\* String(val)
StringOf(val) ==
  CASE val.t = "number" -> NatToStr(val.n)
    [] val.t = "string" -> val.s
    [] val.t = "null" -> <<"null">>
    [] OTHER -> <<"undefined">>

\* s.replace(/\r?\n|\r/g, " "): CR LF, a lone LF and a lone CR each become a space
RECURSIVE ReplaceNewlines(_)
ReplaceNewlines(s) ==
  IF s = <<>> THEN <<>>
  ELSE IF Len(s) >= 2 /\ s[1] = "CR" /\ s[2] = "LF"
    THEN <<" ">> \o ReplaceNewlines(SubSeq(s, 3, Len(s)))
  ELSE IF s[1] \in {"LF", "CR"} THEN <<" ">> \o ReplaceNewlines(Tail(s))
  ELSE <<s[1]>> \o ReplaceNewlines(Tail(s))

\* s.includes(c)
Includes(s, c) == \E i \in 1..Len(s) : s[i] = c

\* s.replace(/"/g, '""')
RECURSIVE ReplaceQuotes(_)
ReplaceQuotes(s) ==
  IF s = <<>> THEN <<>>
  ELSE (IF s[1] = "\"" THEN <<"\"", "\"">> ELSE <<s[1]>>) \o ReplaceQuotes(Tail(s))

\* a quoting that leaves the quotes inside as they are
QuoteNoDoubling(s) ==
  IF Includes(s, "\"") \/ Includes(s, ",") \/ Includes(s, "LF")
    THEN <<"\"">> \o s \o <<"\"">>
    ELSE s

\* the test on the string and the quoting it leads to
QuoteIfNeeded(s) ==
  IF Includes(s, "\"") \/ Includes(s, ",") \/ Includes(s, "LF")
    THEN <<"\"">> \o ReplaceQuotes(s) \o <<"\"">>
    ELSE s

\* a csvEscape that has lost its first line
csvEscapeNoNullGuard(val) == QuoteIfNeeded(ReplaceNewlines(StringOf(val)))

csvEscape(val) ==
  IF val.t \in {"null", "undefined"} THEN <<>>
  ELSE QuoteIfNeeded(ReplaceNewlines(StringOf(val)))

\* a ?? b
Coalesce(a, b) == IF a.t \in {"null", "undefined"} THEN b ELSE a

\* r?.owner?.login, r?.owner?.html_url
OwnerLogin(r) == IF r.owner.t = "object" THEN r.owner.login ELSE UndefinedVal
OwnerHtmlUrl(r) == IF r.owner.t = "object" THEN r.owner.html_url ELSE UndefinedVal

\* Array.prototype.join: the elements with sep between neighbours (computed by
\* halves, which keeps the recursion shallow on long lists)
RECURSIVE Join(_, _)
Join(xs, sep) ==
  IF xs = <<>> THEN <<>>
  ELSE IF Len(xs) = 1 THEN xs[1]
  ELSE Join(SubSeq(xs, 1, Len(xs) \div 2), sep) \o <<sep>>
       \o Join(SubSeq(xs, (Len(xs) \div 2) + 1, Len(xs)), sep)

CsvHeaders == << <<"id">>, <<"full_name">>, <<"html_url">>, <<"description">>,
                <<"stargazers_count">>, <<"language">>, <<"owner_login">>,
                <<"owner_html_url">> >>

\* the row of record r
CsvRow(r) ==
  <<csvEscape(r.id),
    csvEscape(Coalesce(Coalesce(r.full_name, r.name), Str(<<>>))),
    csvEscape(Coalesce(r.html_url, Str(<<>>))),
    csvEscape(Coalesce(r.description, Str(<<>>))),
    csvEscape(Coalesce(r.stargazers_count, Str(<<>>))),
    csvEscape(Coalesce(r.language, Str(<<>>))),
    csvEscape(Coalesce(OwnerLogin(r), Str(<<>>))),
    csvEscape(Coalesce(OwnerHtmlUrl(r), Str(<<>>)))>>

\* a serializer that writes the rows last to first
toCSVReversed(all) ==
  Join(<<Join(CsvHeaders, ",")>>
       \o [j \in 1..Len(all) |-> Join(CsvRow(all[Len(all) + 1 - j]), ",")], "LF")
  \o <<"LF">>

toCSV(all) ==
  Join(<<Join(CsvHeaders, ",")>> \o [j \in 1..Len(all) |-> Join(CsvRow(all[j]), ",")], "LF")
  \o <<"LF">>

\* the artifact stars.csv holding text
CsvFile(text) == [fmt |-> "csv", data |-> text]

NoFile == [fmt |-> "none", data |-> <<>>]

\* path.resolve(process.cwd(), "..", "stars." + format)
DestPath(format) == IF format = "csv" THEN "stars.csv" ELSE "stars.json"

\* lines 102-115: the body is validated, the loop's variables are set up
PostStart ==
  /\ req.kind \in {"POST", "BOTH"}
  /\ post.pc = "idle"
  /\ \E parsed \in {exportRequestSchema(req)} :
       IF parsed.ok
         THEN /\ post' = [PostIdle EXCEPT !.pc = "loop", !.username = parsed.username,
                                          !.format = parsed.format]
              /\ resp' = resp
         ELSE /\ post' = [post EXCEPT !.pc = "done", !.exit = "invalid"]
              /\ resp' = ErrorResp(400, parsed.msg)
  /\ UNCHANGED <<srv, req, upLog, files, uiVars, parseVars, csvVars, homeVars>>

\* lines 117-147: one iteration of the loop, from the fetch to the decision to
\* go round again
PostIter ==
  /\ post.pc = "loop"
  /\ \E url \in {UpstreamUrl(post.username, post.page, Int_(AllPerPage))} :
     \E res \in {GitHub(srv, url)} :
     \E nextPg \in {parseNextFromLink(res.link)} :
     \E exit \in {ExitReason(Truthy(nextPg), post.i + 1)} :
       /\ upLog' = Append(upLog, url)
       /\ IF res.kind = "throw"
            THEN /\ post' = [post EXCEPT !.pc = "done", !.exit = "throw"]
                 /\ resp' = ErrorResp(400, Msg("thrown", 0, "fetch failed"))
          ELSE IF res.kind = "status"
            THEN /\ post' = [post EXCEPT !.pc = "done", !.exit = "upstream"]
                 /\ resp' = ErrorResp(res.status,
                                      Msg("GitHub API error", res.status, res.text))
          ELSE /\ resp' = resp
               /\ post' = [post EXCEPT
                             !.all = PushChunk(post.all, res.records),
                             !.page = IF Truthy(nextPg) THEN nextPg ELSE post.page,
                             !.i = IF Truthy(nextPg) THEN post.i + 1 ELSE post.i,
                             !.pc = IF exit = "none" THEN "loop" ELSE "write",
                             !.exit = exit]
  /\ UNCHANGED <<srv, req, files, uiVars, parseVars, csvVars, homeVars>>

\* a handler that flushes what it has collected while the loop still runs
PostWriteEager ==
  /\ post.pc \in {"loop", "write"}
  /\ files' = [files EXCEPT ![post.format] =
                 IF post.format = "csv" THEN CsvFile(toCSV(post.all))
                 ELSE JSONStringify(post.all)]
  /\ resp' = IF post.pc = "loop" THEN resp
             ELSE [NoResp EXCEPT !.status = 200, !.ok = TRUE, !.count = Len(post.all),
                                 !.path = DestPath(post.format), !.format = post.format]
  /\ post' = IF post.pc = "loop" THEN post ELSE [post EXCEPT !.pc = "done"]
  /\ UNCHANGED <<srv, req, upLog, uiVars, parseVars, csvVars, homeVars>>

\* a handler that reports the pages it fetched as its count
PostWriteCountsPages ==
  /\ post.pc = "write"
  /\ files' = [files EXCEPT ![post.format] =
                 IF post.format = "csv" THEN CsvFile(toCSV(post.all))
                 ELSE JSONStringify(post.all)]
  /\ resp' = [NoResp EXCEPT !.status = 200, !.ok = TRUE, !.count = Len(upLog),
                            !.path = DestPath(post.format), !.format = post.format]
  /\ post' = [post EXCEPT !.pc = "done"]
  /\ UNCHANGED <<srv, req, upLog, uiVars, parseVars, csvVars, homeVars>>

\* lines 149-163: fs.writeFile rejects (the destination cannot be opened); the
\* catch answers 400 with the error's message and the artifact is as it was
PostWriteFails ==
  /\ post.pc = "write"
  /\ resp' = ErrorResp(400, Msg("thrown", 0, "write failed"))
  /\ post' = [post EXCEPT !.pc = "done", !.exit = "writefail"]
  /\ UNCHANGED <<srv, req, upLog, files, uiVars, parseVars, csvVars, homeVars>>

\* lines 149-159: the artifact is written and the success response returned
PostWrite ==
  /\ post.pc = "write"
  /\ files' = [files EXCEPT ![post.format] =
                 IF post.format = "csv" THEN CsvFile(toCSV(post.all))
                 ELSE JSONStringify(post.all)]
  /\ resp' = [NoResp EXCEPT !.status = 200, !.ok = TRUE, !.count = Len(post.all),
                            !.path = DestPath(post.format), !.format = post.format]
  /\ post' = [post EXCEPT !.pc = "done"]
  /\ UNCHANGED <<srv, req, upLog, uiVars, parseVars, csvVars, homeVars>>

(***************************************************************************)
(* GET /api/starred called directly.                                       *)
(***************************************************************************)
Get ==
  /\ req.kind = "GET"
  /\ resp.status = 0
  /\ \E r \in {StarredGET(srv, req)} :
       /\ resp' = r.resp
       /\ upLog' = upLog \o r.reqs
  /\ UNCHANGED <<srv, req, post, files, uiVars, parseVars, csvVars, homeVars>>

(***************************************************************************)
(* The dashboard: the client-side CSV of the displayed items.              *)
(***************************************************************************)
\* the esc of toCSVFromRepos
esc(val) ==
  IF val.t \in {"null", "undefined"} THEN <<>>
  ELSE QuoteIfNeeded(ReplaceNewlines(StringOf(val)))

UiCsvHeaders == << <<"id">>, <<"full_name">>, <<"url">>, <<"description">>, <<"stars">>,
                  <<"language">>, <<"owner_login">>, <<"owner_url">> >>

\* the row of item r
UiCsvRow(r) ==
  <<esc(r.id), esc(r.fullName), esc(r.url),
    esc(Coalesce(r.description, Str(<<>>))),
    esc(r.stars),
    esc(Coalesce(r.language, Str(<<>>))),
    esc(r.owner.login), esc(r.owner.url)>>

toCSVFromRepos(rs) ==
  Join(<<Join(UiCsvHeaders, ",")>>
       \o [j \in 1..Len(rs) |-> Join(UiCsvRow(rs[j]), ",")], "LF")
  \o <<"LF">>

(***************************************************************************)
(* The dashboard: handleFetchAll.                                          *)
(***************************************************************************)
FaIdle == [pc |-> "idle", user |-> <<>>, pg |-> Int_(1), i |-> 0, all |-> <<>>,
           exit |-> "none"]
NullItems == [null |-> TRUE, list |-> <<>>]
ItemList(l) == [null |-> FALSE, list |-> l]

\* currentUser ?? getValues("username")
UserOf(cur, typed) == IF cur.has THEN cur.s ELSE typed.s

\* lines 290-298: the user is read, the flags set, the loop's variables set up
FetchAllStart ==
  /\ req.kind \in {"LOADALL", "BOTH"}
  /\ fa.pc = "idle"
  /\ \E user \in {UserOf(currentUser, req.username)} :
       IF user = <<>>
         THEN /\ fa' = [fa EXCEPT !.pc = "done", !.exit = "nouser"]
              /\ UNCHANGED <<loadingAll, error>>
         ELSE /\ fa' = [FaIdle EXCEPT !.pc = "loop", !.user = user]
              /\ loadingAll' = TRUE
              /\ error' = NoMsg
  /\ UNCHANGED <<routeVars, items, currentUser, page, perPage, pageInfo, rate,
                 parseVars, csvVars, homeVars>>

\* lines 316-320 and 328: what follows the loop, however it was left
FetchAllFinish(all) ==
  /\ items' = ItemList(all)
  /\ currentUser' = Some(fa.user)
  /\ page' = Int_(1)
  /\ perPage' = AllPerPage
  /\ pageInfo' = EmptyInfo
  /\ loadingAll' = FALSE

\* a loop that surfaces the rate of every response, a refused page's included
LoadAllRateOfAnyAnswer(j, old) == j.rate

\* lines 302-306: setRate(j.rate ?? null) is reached on a successful page only
LoadAllRate(j, old) == IF j.ok THEN j.rate ELSE old

\* lines 299-330: one iteration of the loop; an iteration that leaves the loop
\* runs on to the end of the handler
FetchAllIter ==
  /\ fa.pc = "loop"
  /\ \E r \in {StarredGET(srv, [kind |-> "GET", username |-> Some(fa.user),
                                  page |-> Some(NumToStr(fa.pg)),
                                  per_page |-> Some(NatToStr(AllPerPage)),
                                  format |-> "absent"])} :
     \E j \in {r.resp} :
     \E all2 \in {fa.all \o j.items} :
     \E nxt \in {InfoGet(parseLinkHeader(j.link).val, "next")} :
     \E exit \in {ExitReason(Truthy(nxt), fa.i + 1)} :
     \E fa2 \in {[fa EXCEPT !.all = all2,
                            !.pg = IF Truthy(nxt) THEN nxt ELSE fa.pg,
                            !.i = IF Truthy(nxt) THEN fa.i + 1 ELSE fa.i,
                            !.exit = exit]} :
       /\ upLog' = upLog \o r.reqs
       /\ IF ~j.ok
            THEN /\ error' = j.error
                 /\ rate' = LoadAllRate(j, rate)
                 /\ fa' = [fa EXCEPT !.pc = "done", !.exit = "error"]
                 /\ FetchAllFinish(fa.all)
          ELSE /\ error' = error
               /\ rate' = LoadAllRate(j, rate)
               /\ IF exit = "none"
                    THEN /\ fa' = fa2
                         /\ UNCHANGED <<items, currentUser, page, perPage, pageInfo,
                                        loadingAll>>
                    ELSE /\ fa' = [fa2 EXCEPT !.pc = "done"]
                         /\ FetchAllFinish(all2)
  /\ UNCHANGED <<srv, req, post, resp, files, parseVars, csvVars, homeVars>>

(***************************************************************************)
(* Home: the handlers of the page, any number of them in flight.  A        *)
(* handler runs to its next await in one step; ops holds one frame for     *)
(* every handler that has awaited a fetch, in the order the handlers were  *)
(* started.  variant tells stars-dashboard/app/page.tsx ("dashboard") from *)
(* app/page.tsx ("app").  origin names the response the displayed items    *)
(* were taken from, lastDone the handler that ended last.                  *)
(***************************************************************************)
Frame(kind, user, pg, pp, pc) ==
  [kind |-> kind, user |-> user, pg |-> pg, pp |-> pp, pc |-> pc, i |-> 0,
   all |-> <<>>, got |-> <<>>, sent |-> 0, exported |-> FALSE, exit |-> "none"]
InFlight(o) == o.pc # "done"
NoOrigin == [op |-> 0, link |-> NullLink, pg |-> Int_(1), pp |-> DefaultPerPage]
Origin(k, header, pg, pp) == [op |-> k, link |-> header, pg |-> pg, pp |-> pp]

\* fetch or r.json() rejects: the catch block gets the error
Thrown == ErrorResp(0, Msg("thrown", 0, "fetch failed"))
\* the upstream refuses a request it would otherwise answer
RateLimited == ErrorResp(403, Msg("GitHub API error", 403, "rate limit exceeded"))

\* what the fetch of /api/starred?username=&page=&per_page= comes back with
\* when the endpoint answers and the upstream does not refuse
StarredAnswers(s, user, pg, pp) ==
  {StarredGET(s, [kind |-> "GET", username |-> Some(user),
                  page |-> Some(NumToStr(pg)), per_page |-> Some(NatToStr(pp)),
                  format |-> "absent"]).resp}

\* ... and when the fetch fails
Failures == {Thrown, RateLimited}

\* what the fetch of /api/export can come back with
ExportAnswers ==
  {[NoResp EXCEPT !.status = 200, !.ok = TRUE],
   ErrorResp(400, Msg("export failed", 400, "")),
   Thrown}

ExitOf(j) == IF j = Thrown THEN "throw" ELSE IF j.ok THEN "ok" ELSE "error"

\* a handler whose busy flag is cleared at the end of the try block only
BusyAfterTryOnly(exit) == exit # "ok"

\* finally { setLoading(false) }, setLoadingAll(false), setExporting(false)
BusyAfter(exit) == FALSE

\* a cursor that is patched with the fields of the new response
PageInfoPatched(old, j) == parseLinkHeader(j.link).val @@ old

\* const info = parseLinkHeader(j.link ?? null); setPageInfo(info)
PageInfoAfter(old, j) == parseLinkHeader(j.link).val

\* a load-all that adds its list to the displayed one
DisplayedWithLoadAll(old, all) == old \o all

\* setItems(all)
DisplayedAfterLoadAll(old, all) == all

\* a Fetch All that goes straight to the display loop
FirstAwaitLoop(v) == "loop"

\* the first await of handleFetchAll: the export in app/page.tsx, the first
\* page of the display loop in the dashboard
FirstAwait(v) == IF v = "app" THEN "export" ELSE "loop"

\* fetchPage up to its await
StartFetchPage(user, pg, pp) ==
  /\ loading' = TRUE
  /\ error' = NoMsg
  /\ ops' = Append(ops, [Frame("fetchPage", user, pg, pp, "wait") EXCEPT !.sent = 1])

\* the form is submitted (the button is disabled while loading or loadingAll)
OnSubmit ==
  /\ Len(ops) < MaxOps
  /\ ~loading /\ ~loadingAll
  /\ form.has /\ Len(form.s) >= 1
  /\ currentUser' = Some(Trim(form.s))
  /\ StartFetchPage(Trim(form.s), Int_(1), perPage)
  /\ UNCHANGED <<routeVars, fa, items, loadingAll, page, perPage, pageInfo, rate,
                 variant, form, exporting, origin, lastDone, parseVars, csvVars>>

\* handlePrev and handleNext (shown when currentUser && !loadingAll, disabled
\* while loading or without the cursor's field)
HandlePrevNext(rel) ==
  /\ Len(ops) < MaxOps
  /\ currentUser.has /\ currentUser.s # <<>>
  /\ ~loadingAll /\ ~loading
  /\ Truthy(InfoGet(pageInfo, rel))
  /\ StartFetchPage(currentUser.s, InfoGet(pageInfo, rel), perPage)
  /\ UNCHANGED <<routeVars, fa, items, loadingAll, currentUser, page, perPage, pageInfo,
                 rate, variant, form, exporting, origin, lastDone, parseVars, csvVars>>

\* the options of the per-page select that are tried: one below and one above
\* the default of 30
PerPageOptions == {10, 50}

\* handlePerPageChange: the select is never disabled
HandlePerPageChange ==
  /\ Len(ops) < MaxOps
  /\ \E pp \in PerPageOptions \ {perPage} :
     \E user \in {UserOf(currentUser, form)} :
       /\ perPage' = pp
       /\ IF user # <<>> THEN StartFetchPage(user, Int_(1), pp)
                         ELSE UNCHANGED <<loading, error, ops>>
  /\ UNCHANGED <<routeVars, fa, items, loadingAll, currentUser, page, pageInfo, rate,
                 variant, form, exporting, origin, lastDone, parseVars, csvVars>>

\* the busy flags that disable the Fetch All button
FetchAllDisabled == variant = "app" /\ (loading \/ loadingAll)

\* handleFetchAll up to its first await
HandleFetchAll ==
  /\ Len(ops) < MaxOps
  /\ ~FetchAllDisabled
  /\ UserOf(currentUser, form) # <<>>
  /\ loadingAll' = TRUE
  /\ error' = NoMsg
  /\ ops' = Append(ops, Frame("fetchAll", UserOf(currentUser, form), Int_(1),
                              AllPerPage, FirstAwait(variant)))
  /\ UNCHANGED <<routeVars, fa, items, currentUser, page, perPage, pageInfo, rate,
                 variant, form, loading, exporting, origin, lastDone, parseVars, csvVars>>

\* the busy flags that disable the Export button
ExportDisabled == IF variant = "app" THEN loading \/ loadingAll \/ exporting
                  ELSE exporting

\* handleExport, and handleExportAction for the whole list, up to the await
HandleExport ==
  /\ Len(ops) < MaxOps
  /\ ~ExportDisabled
  /\ error' = IF UserOf(currentUser, form) = <<>> /\ variant = "dashboard"
                THEN Msg("Enter a username first", 0, "") ELSE NoMsg
  /\ IF UserOf(currentUser, form) = <<>>
       THEN /\ variant = "dashboard"
            /\ exporting' = BusyAfter("nouser")
            /\ ops' = ops
       ELSE /\ exporting' = TRUE
            /\ ops' = Append(ops, Frame("export", UserOf(currentUser, form), Int_(1),
                                        AllPerPage, "export"))
  /\ UNCHANGED <<routeVars, fa, items, loadingAll, currentUser, page, perPage, pageInfo,
                 rate, variant, form, loading, origin, lastDone, parseVars, csvVars>>

\* the rest of fetchPage after a response that is not shown
FetchPageFailed(k, j) ==
  /\ error' = j.error
  /\ IF variant = "app"
       THEN /\ items' = ItemList(<<>>)
            /\ pageInfo' = EmptyInfo
            /\ rate' = IF j = Thrown THEN rate ELSE j.rate
            /\ origin' = Origin(k, NullLink, page, perPage)
       ELSE UNCHANGED <<items, pageInfo, rate, origin>>
  /\ UNCHANGED <<currentUser, page, perPage>>

\* the rest of fetchPage after a successful response
FetchPageShown(k, j) ==
  /\ items' = ItemList(j.items)
  /\ currentUser' = IF variant = "dashboard" THEN Some(ops[k].user) ELSE currentUser
  /\ page' = ops[k].pg
  /\ perPage' = ops[k].pp
  /\ pageInfo' = PageInfoAfter(pageInfo, j)
  /\ rate' = j.rate
  /\ error' = error
  /\ origin' = Origin(k, j.link, ops[k].pg, ops[k].pp)

\* fetchPage after the response j
FetchPageEnds(k, j) ==
  /\ ops' = [ops EXCEPT ![k].pc = "done", ![k].exit = ExitOf(j)]
  /\ loading' = BusyAfter(ExitOf(j))
  /\ IF j.ok THEN FetchPageShown(k, j) ELSE FetchPageFailed(k, j)

\* fetchPage from its await to its end
FetchPageDone(k) ==
  /\ ops[k].kind = "fetchPage" /\ ops[k].pc = "wait"
  /\ \/ \E j \in Failures : FetchPageEnds(k, j)
     \/ \E j \in StarredAnswers(srv, ops[k].user, ops[k].pg, ops[k].pp) :
          FetchPageEnds(k, j)
  /\ lastDone' = k
  /\ UNCHANGED <<routeVars, fa, loadingAll, variant, form, exporting, parseVars, csvVars>>

\* handleFetchAll of app/page.tsx from the await of the export to the next await
FetchAllExportDone(k) ==
  /\ ops[k].kind = "fetchAll" /\ ops[k].pc = "export"
  /\ \E a \in ExportAnswers :
       IF a.ok
         THEN /\ ops' = [ops EXCEPT ![k].pc = "loop", ![k].exported = TRUE]
              /\ UNCHANGED <<error, loadingAll, lastDone>>
         ELSE /\ ops' = [ops EXCEPT ![k].pc = "done",
                                    ![k].exit = IF a = Thrown THEN "throw" ELSE "noexport"]
              /\ error' = a.error
              /\ loadingAll' = BusyAfter("noexport")
              /\ lastDone' = k
  /\ UNCHANGED <<routeVars, fa, items, currentUser, page, perPage, pageInfo, rate,
                 variant, form, loading, exporting, origin, parseVars, csvVars>>

\* what follows the display loop: the list is shown, the cursor emptied
LoadAllShown(k, all) ==
  /\ items' = ItemList(DisplayedAfterLoadAll(items.list, all))
  /\ currentUser' = Some(ops[k].user)
  /\ page' = Int_(1)
  /\ perPage' = AllPerPage
  /\ pageInfo' = EmptyInfo
  /\ origin' = Origin(k, NullLink, Int_(1), AllPerPage)

\* the frame of a load-all after the answer j to its request for page pg
LoadAllFrame(o, j, nxt, exit) ==
  [o EXCEPT !.sent = @ + 1,
            !.all = IF j.ok THEN @ \o j.items ELSE @,
            !.got = IF j.ok THEN Append(@, RequestedPage(o.pg)) ELSE @,
            !.pg = IF j.ok /\ Truthy(nxt) THEN nxt ELSE @,
            !.i = IF j.ok /\ Truthy(nxt) THEN @ + 1 ELSE @,
            !.exit = exit,
            !.pc = IF exit = "none" THEN "loop" ELSE "done"]

\* the loop body of handleFetchAll after the response j, and the end of the
\* handler when the iteration leaves the loop
FetchAllPageEnds(k, j) ==
  \E nxt \in {InfoGet(parseLinkHeader(j.link).val, "next")} :
  \E exit \in {IF j.ok THEN ExitReason(Truthy(nxt), ops[k].i + 1) ELSE ExitOf(j)} :
  \E o2 \in {LoadAllFrame(ops[k], j, nxt, exit)} :
    /\ ops' = [ops EXCEPT ![k] = o2]
    /\ rate' = LoadAllRate(j, rate)
    /\ error' = IF j.ok THEN error ELSE j.error
    /\ IF exit = "none"
         THEN UNCHANGED <<items, currentUser, page, perPage, pageInfo, loadingAll,
                          origin, lastDone>>
         ELSE /\ loadingAll' = BusyAfter(exit)
              /\ lastDone' = k
              /\ IF exit = "throw"
                   THEN UNCHANGED <<items, currentUser, page, perPage, pageInfo, origin>>
                   ELSE LoadAllShown(k, o2.all)

\* one iteration of the display loop of handleFetchAll; an iteration that
\* leaves the loop runs on to the end of the handler
FetchAllPageDone(k) ==
  /\ ops[k].kind = "fetchAll" /\ ops[k].pc = "loop"
  /\ \/ \E j \in Failures : FetchAllPageEnds(k, j)
     \/ \E j \in StarredAnswers(srv, ops[k].user, ops[k].pg, AllPerPage) :
          FetchAllPageEnds(k, j)
  /\ UNCHANGED <<routeVars, fa, variant, form, loading, exporting, parseVars, csvVars>>

\* handleExportAction for the displayed items: exportCurrent has no await
ExportCurrent ==
  /\ variant = "dashboard"
  /\ ~ExportDisabled
  /\ error' = IF items.list = <<>> THEN Msg("Nothing to export in current view", 0, "")
               ELSE NoMsg
  /\ exporting' = BusyAfter("ok")
  /\ UNCHANGED <<routeVars, fa, items, loadingAll, currentUser, page, perPage, pageInfo,
                 rate, variant, form, loading, ops, origin, lastDone, parseVars, csvVars>>

\* handleExport and handleExportAction from the await to the end
ExportDone(k) ==
  /\ ops[k].kind = "export" /\ ops[k].pc = "export"
  /\ \E a \in ExportAnswers :
       /\ ops' = [ops EXCEPT ![k].pc = "done", ![k].exit = ExitOf(a)]
       /\ error' = IF a.ok THEN error ELSE a.error
       /\ exporting' = BusyAfter(ExitOf(a))
  /\ lastDone' = k
  /\ UNCHANGED <<routeVars, fa, items, loadingAll, currentUser, page, perPage, pageInfo,
                 rate, variant, form, loading, origin, parseVars, csvVars>>


(***************************************************************************)
(* The Link-header parsers called on an enumerated header and on a         *)
(* permutation of its entries.                                             *)
(***************************************************************************)
CallParseLinkHeader ==
  /\ "parseLinkHeader" \notin called
  /\ called' = called \cup {"parseLinkHeader"}
  /\ info' = parseLinkHeader(link)
  /\ infoPerm' = parseLinkHeader(linkPerm)
  /\ UNCHANGED <<routeVars, uiVars, csvVars, homeVars, link, linkPerm, nextPage, nextPagePerm>>

CallParseNextFromLink ==
  /\ "parseNextFromLink" \notin called
  /\ called' = called \cup {"parseNextFromLink"}
  /\ nextPage' = parseNextFromLink(link)
  /\ nextPagePerm' = parseNextFromLink(linkPerm)
  /\ UNCHANGED <<routeVars, uiVars, csvVars, homeVars, link, linkPerm, info, infoPerm>>

(***************************************************************************)
(* The serializers called on an enumerated field value and on an           *)
(* enumerated list of records.                                             *)
(***************************************************************************)
NoText == <<"(not called)">>

CallCsvEscape ==
  /\ "csvEscape" \notin csvCalled
  /\ csvCalled' = csvCalled \cup {"csvEscape"}
  /\ escaped' = csvEscape(cell)
  /\ escapedUi' = esc(cell)
  /\ UNCHANGED <<routeVars, uiVars, parseVars, homeVars, cell, repos, csvText, csvUiText>>

CallToCSV ==
  /\ "toCSV" \notin csvCalled
  /\ csvCalled' = csvCalled \cup {"toCSV"}
  /\ csvText' = toCSV(repos)
  /\ UNCHANGED <<routeVars, uiVars, parseVars, homeVars, cell, escaped, escapedUi, repos, csvUiText>>

\* the items of the dashboard are the records the GET route has normalized,
\* which takes a record with an owner
CallToCSVFromRepos ==
  /\ "toCSVFromRepos" \notin csvCalled
  /\ \A j \in 1..Len(repos) : repos[j].owner.t = "object"
  /\ csvCalled' = csvCalled \cup {"toCSVFromRepos"}
  /\ csvUiText' = toCSVFromRepos(NormalizeAll(repos))
  /\ UNCHANGED <<routeVars, uiVars, parseVars, homeVars, cell, escaped, escapedUi, repos, csvText>>

(***************************************************************************)
(* Inputs.                                                                 *)
(***************************************************************************)
Chars == {" ", "a"}
Strings == UNION {[1..n -> Chars] : n \in 0..MaxUserLen}
UsernameInputs == {None} \cup {Some(s) : s \in Strings}

PageInputs == {None, Some(<<>>), Some(<<"0">>), Some(<<"1">>), Some(<<"2">>),
               Some(<<"-", "1">>), Some(<<"1", ".", "5">>), Some(<<"x">>),
               Some(<<"Infinity">>)}
PerPageInputs == {None, Some(<<>>), Some(<<"0">>), Some(<<"1">>), Some(<<"1", "0", "0">>),
                  Some(<<"1", "0", "1">>), Some(<<"2", ".", "5">>), Some(<<"x">>)}
FormatInputs == {"absent", "json", "csv", "xml"}

Request(kind, u, p, pp, f) ==
  [kind |-> kind, username |-> u, page |-> p, per_page |-> pp, format |-> f]

GetRequests == {Request("GET", u, p, pp, "absent") :
                  u \in UsernameInputs, p \in PageInputs, pp \in PerPageInputs}
PostRequests == {Request("POST", u, None, None, f) :
                   u \in UsernameInputs, f \in FormatInputs}
LoadAllClicks == {Request("LOADALL", Some(s), None, None, "absent") : s \in Strings}
Requests == GetRequests \cup PostRequests \cup LoadAllClicks

\* the requests a long chain is exercised with
PlainRequests == {r \in Requests :
                    /\ r.username = Some(<<"a">>)
                    /\ r.page \in {None, Some(<<"2">>)}
                    /\ r.per_page = None
                    /\ r.format \in {"absent", "csv"}}

Server(len, cyc, fp, fk, fs) ==
  [len |-> len, cyc |-> cyc, failPage |-> fp, failKind |-> fk, failStatus |-> fs,
   odd |-> "plain"]

\* a chain of len pages whose first page carries an unusual Link header
OddServer(len, odd) == [Server(len, 0, 0, "none", 0) EXCEPT !.odd = odd]

ChainLens == (1..MaxShort) \cup ((PageCap - 1)..(PageCap + MaxOver))
CycleLens == {1, 2}
FailKinds == {<<"status", 403>>, <<"status", 500>>, <<"throw", 0>>}
FailPages == (1..MaxShort) \cup {PageCap}

FailingAt(len, cyc) ==
  {Server(len, cyc, fp, fk[1], fk[2]) :
     fp \in {x \in FailPages : x <= len}, fk \in FailKinds}

Servers ==
  {Server(l, 0, 0, "none", 0) : l \in ChainLens}
  \cup {Server(c, c, 0, "none", 0) : c \in CycleLens}
  \cup UNION {FailingAt(l, 0) : l \in ChainLens}
  \cup UNION {FailingAt(c, c) : c \in CycleLens}

\* the servers every request is tried on
SmallServers == {s \in Servers : s.len = 2 /\ s.cyc = 0 /\ s.failPage \in {0, 1}}

(***************************************************************************)
(* Enumerated Link headers.                                                *)
(***************************************************************************)
HeaderParts ==
  {<<EmptySec>>, <<UrlSec(<<"2">>)>>}
  \cup {<<UrlSec(p), RelSec(r)>> : p \in {<<"2">>, <<"3">>}, r \in {"next", "last"}}
  \cup {<<UrlSec(<<"2">>), RelSec("foo")>>}
  \cup {<<UrlSec(p), RelSec("next")>> :
          p \in {<<"0">>, <<"-", "1">>, <<"Infinity">>, <<"x">>, <<>>}}
  \cup {<<UrlNoPage, RelSec("next")>>,
        <<BadUrlSec(<<"2">>), RelSec("next")>>,
        <<UrlSec(<<"2">>), ParamSec>>,
        <<UrlSec(<<"3">>), ParamSec, RelSec("next")>>}

Headers == {NullLink} \cup
           UNION {{StrLink(ps) : ps \in [1..n -> HeaderParts]} : n \in 1..MaxParts}

\* the headers made of the entries of h in another order
PermutationsOf(h) ==
  IF h.isNull THEN {h}
  ELSE {StrLink([j \in 1..Len(h.parts) |-> h.parts[f[j]]]) :
          f \in Permutations(1..Len(h.parts))}

(***************************************************************************)
(* Enumerated field values and records.                                    *)
(***************************************************************************)
CellChars == {"a", ",", "\"", "LF", "CR"}
CellStrings == UNION {[1..n -> CellChars] : n \in 0..MaxCell}
Cells == {NullStr, UndefinedVal, NumVal(7), Str(<<"null">>), Str(<<"undefined">>)}
         \cup {Str(cs) : cs \in CellStrings}

\* a record whose fields may be missing or hold the characters CSV escapes
LooseRepo(id, full_name, description, owner) ==
  [id |-> id, name |-> Str(<<"b">>), full_name |-> full_name,
   html_url |-> Str(<<"https://x/a/b">>), description |-> description,
   stargazers_count |-> NumVal(42), language |-> NullStr, owner |-> owner]

SomeOwner == Owner(Str(<<"a">>), Str(<<"u">>), Str(<<"p">>))

RepoSamples ==
  {LooseRepo(NumVal(7), Str(<<"a/b">>), Str(<<"He said ", "\"", "hi", "\"", ",", " ok">>),
             SomeOwner),
   LooseRepo(NumVal(8), UndefinedVal, Str(<<"one", "CR", "LF", "two", "LF", "three">>),
             SomeOwner),
   LooseRepo(UndefinedVal, Str(<<"c", ",", "d">>), NullStr, NoOwner),
   LooseRepo(NumVal(9), Str(<<"null">>), UndefinedVal,
             Owner(UndefinedVal, Str(<<"u">>), NullStr)),
   RawRepo(1), RawRepo(2)}

RepoLists == UNION {[1..n -> RepoSamples] : n \in 0..MaxRows}

(***************************************************************************)
(* Initial states and specifications.                                      *)
(***************************************************************************)
RouteInit ==
  /\ upLog = <<>>
  /\ post = PostIdle
  /\ resp = NoResp
  /\ files = [f \in Formats |-> NoFile]

UiInit ==
  /\ fa = FaIdle
  /\ items = NullItems
  /\ error = NoMsg
  /\ loadingAll = FALSE
  /\ currentUser = None
  /\ page = Int_(1)
  /\ perPage = DefaultPerPage
  /\ pageInfo = EmptyInfo
  /\ rate = NullRate

HomeInit ==
  /\ loading = FALSE
  /\ exporting = FALSE
  /\ ops = <<>>
  /\ origin = NoOrigin
  /\ lastDone = 0

\* the handlers of Home are not called
NoHome == variant = "dashboard" /\ form = None /\ HomeInit

CsvInit ==
  /\ cell = NullStr
  /\ repos = <<>>
  /\ escaped = NoText
  /\ escapedUi = NoText
  /\ csvText = NoText
  /\ csvUiText = NoText
  /\ csvCalled = {}

ParseInit ==
  /\ called = {}
  /\ info = ParseOk(EmptyInfo)
  /\ infoPerm = ParseOk(EmptyInfo)
  /\ nextPage = Undefined
  /\ nextPagePerm = Undefined

\* a request arrives at a server
Init ==
  /\ srv \in Servers
  /\ req \in IF srv \in SmallServers THEN Requests ELSE PlainRequests
  /\ RouteInit
  /\ UiInit
  /\ link = NullLink
  /\ linkPerm = NullLink
  /\ ParseInit
  /\ CsvInit
  /\ NoHome

Next == \/ PostStart
        \/ PostIter
        \/ PostWrite
        \/ PostWriteFails
        \/ Get
        \/ FetchAllStart
        \/ FetchAllIter

Spec == Init /\ [][Next]_vars

\* a header is parsed
InitParse ==
  /\ srv = Server(1, 0, 0, "none", 0)
  /\ req = Request("GET", None, None, None, "absent")
  /\ RouteInit
  /\ UiInit
  /\ link \in Headers
  /\ linkPerm \in PermutationsOf(link)
  /\ ParseInit
  /\ CsvInit
  /\ NoHome

NextParse == \/ CallParseLinkHeader
             \/ CallParseNextFromLink

SpecParse == InitParse /\ [][NextParse]_vars

\* the serializers on every enumerated value and list
InitCsv ==
  /\ srv = Server(1, 0, 0, "none", 0)
  /\ req = Request("GET", None, None, None, "absent")
  /\ RouteInit
  /\ UiInit
  /\ link = NullLink
  /\ linkPerm = NullLink
  /\ ParseInit
  /\ \/ cell \in Cells /\ repos = <<>>
     \/ cell = NullStr /\ repos \in RepoLists
  /\ escaped = NoText
  /\ escapedUi = NoText
  /\ csvText = NoText
  /\ csvUiText = NoText
  /\ csvCalled = {}
  /\ NoHome

NextCsv == \/ CallCsvEscape
           \/ CallToCSV
           \/ CallToCSVFromRepos

SpecCsv == InitCsv /\ [][NextCsv]_vars

\* an export and a load-all of the same user against the same upstream
OddKinds == {"twoNext", "infNext", "relSecond"}
PathServers ==
  {s \in Servers : s.len <= MaxShort /\ s.cyc = 0}
  \cup {OddServer(l, o) : l \in 1..MaxShort, o \in OddKinds}

InitPaths ==
  /\ srv \in PathServers
  /\ req \in {Request("BOTH", Some(<<"a">>), None, None, f) : f \in {"absent", "csv"}}
  /\ RouteInit
  /\ UiInit
  /\ link = NullLink
  /\ linkPerm = NullLink
  /\ ParseInit
  /\ CsvInit
  /\ NoHome

NextPaths == \/ PostStart
             \/ PostIter
             \/ PostWrite
             \/ PostWriteFails
             \/ FetchAllStart
             \/ FetchAllIter

SpecPaths == InitPaths /\ [][NextPaths]_vars

\* a page is opened in a browser: a username is typed or not, and the
\* handlers are started by the controls that are enabled
HomeServers == {Server(2, 0, 0, "none", 0)}

InitHome ==
  /\ srv \in HomeServers
  /\ variant \in {"dashboard", "app"}
  /\ form \in {None, Some(<<"a">>)}
  /\ req = Request("HOME", form, None, None, "absent")
  /\ RouteInit
  /\ UiInit
  /\ link = NullLink
  /\ linkPerm = NullLink
  /\ ParseInit
  /\ CsvInit
  /\ HomeInit

Arrive == \/ \E k \in 1..Len(ops) : FetchPageDone(k)
          \/ \E k \in 1..Len(ops) : FetchAllExportDone(k)
          \/ \E k \in 1..Len(ops) : FetchAllPageDone(k)
          \/ \E k \in 1..Len(ops) : ExportDone(k)

NextHome == \/ OnSubmit
            \/ \E rel \in {"prev", "next"} : HandlePrevNext(rel)
            \/ HandlePerPageChange
            \/ HandleFetchAll
            \/ HandleExport
            \/ ExportCurrent
            \/ Arrive

SpecHome == InitHome /\ [][NextHome]_vars

\* every fetch is answered or fails
SpecHomeFair == SpecHome /\ WF_vars(Arrive)


(***************************************************************************)
(* Properties of the aggregation loops.                                    *)
(***************************************************************************)
\* the records of the first n pages of the chain that starts at page p
RECURSIVE ChainRecords(_, _, _)
ChainRecords(s, p, n) ==
  IF n = 0 \/ p = 0 THEN <<>>
  ELSE PageRecords(s, p) \o ChainRecords(s, NextOf(s, p), n - 1)

NoFailure == srv.failPage = 0
Linear == srv.cyc = 0
PostLoopLeft == post.pc \in {"write", "done"} /\ post.exit \in {"break", "cap"}
FetchAllLeft == fa.pc = "done" /\ fa.exit \in {"break", "cap", "error"}
Written == \E f \in Formats : files[f] # NoFile

\* what the aggregations return for a chain of srv.len pages that never fails
WholeChainReturned ==
  /\ PostLoopLeft =>
       /\ post.all = ChainRecords(srv, 1, srv.len)
       /\ post.exit = "break"
  /\ post.pc = "done" /\ post.exit = "break" =>
       /\ resp.ok /\ resp.count = Len(ChainRecords(srv, 1, srv.len))
       /\ files[post.format].data =
            IF post.format = "csv" THEN toCSV(ChainRecords(srv, 1, srv.len))
            ELSE ChainRecords(srv, 1, srv.len)
  /\ FetchAllLeft =>
       /\ items = ItemList(NormalizeAll(ChainRecords(srv, 1, srv.len)))
       /\ fa.exit = "break"

\* C1 as stated: for every finite chain of pages that ends in a response with
\* no next pointer, the export route and the load-all handler return exactly
\* the concatenation of all pages' items, in page order then in-page order,
\* nothing dropped, duplicated or de-duplicated, and are not truncated.
C1_AnyFiniteChain == Linear /\ NoFailure => WholeChainReturned

\* C1 amended: the same for every chain of at most pageCap (100) pages.
C1_ChainWithinCap == Linear /\ NoFailure /\ srv.len <= PageCap => WholeChainReturned

C1_Witness == /\ Linear /\ NoFailure /\ srv.len = PageCap
              /\ post.pc = "done" /\ post.exit = "break"
              /\ Len(post.all) = PageCap + 2

C3_NoPartialItems ==
  /\ post.exit = "upstream" /\ Len(upLog) > 1 =>
       ~Written /\ ~resp.ok /\ resp.status = srv.failStatus
  /\ fa.pc = "done" /\ fa.exit = "error" /\ srv.failKind = "status" /\ Len(upLog) > 1 =>
       error # NoMsg /\ items.list = <<>>

\* C4: the artifact is written only once the whole loop has completed
\* successfully, hence after the last fetch; a run in which validation or a
\* page fetch fails writes nothing.
C4_WriteAfterLoop ==
  /\ Written =>
       /\ post.pc = "done" /\ post.exit \in {"break", "cap"}
       /\ \A f \in Formats : f # post.format => files[f] = NoFile
       /\ upLog # <<>> /\ Len(upLog) \in {post.i, post.i + 1}
  /\ post.exit \in {"invalid", "upstream", "throw"} => ~Written /\ ~resp.ok
  /\ post.pc = "done" /\ post.exit \in {"break", "cap"} => Written

C4_Witness == /\ post.pc = "done" /\ post.exit = "throw" /\ Len(upLog) = 3
              /\ ~Written

\* the page whose response the aggregation saw last
LastPage == ToNumber(upLog[Len(upLog)].page).v

\* C5: when the pageCap-th response is the one without a next pointer the
\* aggregation ends untruncated; a loop never issues more than pageCap
\* fetches, and never issues a fetch after a response without next pointer.
C5_CapEdge ==
  /\ Linear /\ NoFailure /\ srv.len = PageCap =>
       /\ PostLoopLeft => post.exit = "break" /\ Len(upLog) = PageCap
       /\ FetchAllLeft => fa.exit = "break" /\ Len(upLog) = PageCap
  /\ Len(upLog) <= PageCap
  /\ (post.pc = "loop" \/ fa.pc = "loop") /\ upLog # <<>> => NextOf(srv, LastPage) > 0

C5_Witness == /\ Linear /\ NoFailure /\ srv.len = PageCap
              /\ fa.pc = "done" /\ fa.exit = "break" /\ Len(upLog) = PageCap


(***************************************************************************)
(* Properties of request validation.                                       *)
(***************************************************************************)
Handled == resp.status # 0
InvalidInput == resp.status = 400 /\ resp.error.kind = "zod"

\* raw is a literal of an integer in lo..hi (hi < 0: no upper limit)
IntegerIn(raw, lo, hi) ==
  LET n == ToNumber(raw.s)
  IN raw.has /\ n.k = "int" /\ n.v >= lo /\ (hi < 0 \/ n.v <= hi)

ValueOr(raw, dflt) == IF raw.has /\ raw.s # <<>> THEN ToNumber(raw.s).v ELSE dflt

UsernameGiven == req.username.has /\ Trim(req.username.s) # <<>>

\* one upstream request, for the requested page and page size
OneUpstreamRequest ==
  /\ Len(upLog) = 1
  /\ ToNumber(upLog[1].page) = Int_(ValueOr(req.page, 1))
  /\ ToNumber(upLog[1].per_page) = Int_(ValueOr(req.per_page, 30))

\* C6 as stated: page must be an integer >= 1 (1 when absent), pageSize an
\* integer in 1..100 (30 when absent); a violation yields InvalidInput and no
\* upstream request, a valid request exactly one upstream request with the
\* validated page and pageSize.
C6_AbsentOrInteger ==
  req.kind = "GET" /\ Handled =>
    LET pageOk == ~req.page.has \/ IntegerIn(req.page, 1, 0 - 1)
        sizeOk == ~req.per_page.has \/ IntegerIn(req.per_page, 1, 100)
    IN /\ ~(pageOk /\ sizeOk) => InvalidInput /\ upLog = <<>>
       /\ pageOk /\ sizeOk /\ UsernameGiven => OneUpstreamRequest

\* C6 amended: an empty value counts as absent (page= gives 1, per_page=
\* gives 30); every other value must be an integer in range.
C6_AbsentEmptyOrInteger ==
  req.kind = "GET" /\ Handled =>
    LET pageOk == ~req.page.has \/ req.page.s = <<>> \/ IntegerIn(req.page, 1, 0 - 1)
        sizeOk == \/ ~req.per_page.has \/ req.per_page.s = <<>>
                  \/ IntegerIn(req.per_page, 1, 100)
    IN /\ ~(pageOk /\ sizeOk) => InvalidInput /\ upLog = <<>>
       /\ pageOk /\ sizeOk /\ UsernameGiven => OneUpstreamRequest

C6_Witness == /\ req.kind = "GET" /\ Handled
              /\ req.username = Some(<<"a">>)
              /\ req.page = Some(<<>>) /\ req.per_page = Some(<<"1", "0", "0">>)
              /\ Len(upLog) = 1 /\ upLog[1].page = <<"1">>

\* C7 as stated: on both endpoints a username that is empty once trimmed is
\* rejected as InvalidInput and reaches no upstream request; the username of
\* every upstream request is trimmed and non-empty.
C7_BlankUsernameRejected ==
  /\ req.kind \in {"GET", "POST"} /\ ~UsernameGiven =>
       /\ upLog = <<>>
       /\ Handled => InvalidInput
  /\ req.kind \in {"GET", "POST"} =>
       \A j \in 1..Len(upLog) :
          upLog[j].user # <<>> /\ upLog[j].user = encodeURIComponent(Trim(req.username.s))

(***************************************************************************)
(* Properties of the Link-header parsers.                                  *)
(***************************************************************************)
Relations == {"first", "prev", "next", "last"}
PositiveFinite(x) == (x.k = "int" /\ x.v > 0) \/ (x.k = "frac" /\ x.v >= 0)
BothCalled == called = {"parseLinkHeader", "parseNextFromLink"}

\* C8 as stated: an entry is recorded only if its relation is one of first,
\* prev, next, last and its page is a positive finite number, so the cursor
\* has no other key and no non-positive or non-finite value.
C8_OnlyKnownPositive ==
  /\ "parseLinkHeader" \in called =>
       /\ ~info.err
       /\ \A r \in DOMAIN info.val : r \in Relations /\ PositiveFinite(info.val[r])
  /\ "parseNextFromLink" \in called =>
       nextPage = Undefined \/ PositiveFinite(nextPage)

\* the entries of the form <URL with page=p>; rel="r", r a known relation and
\* p a positive integer
ValidEntry(part) ==
  /\ Len(part) = 2
  /\ UrlParses(part[1]) /\ part[1].hasPage /\ PositiveFinite(ToNumber(part[1].page))
  /\ part[1].page # <<>>
  /\ RelMatches(part[2]) /\ part[2].name \in Relations

ValidHeader(h) == ~h.isNull /\ \A j \in 1..Len(h.parts) : ValidEntry(h.parts[j])

DistinctRelations(h) ==
  \A j, l \in 1..Len(h.parts) : j # l => h.parts[j][2].name # h.parts[l][2].name

\* C9 as stated: for every valid header, permuting the comma-separated
\* entries yields the same cursor and, in the export route, the same next page.
C9_AnyOrder ==
  BothCalled /\ ValidHeader(link) =>
    info = infoPerm /\ nextPage = nextPagePerm

\* C9 amended: the same for the valid headers in which no relation name is
\* carried by two entries.
C9_AnyOrderDistinctRelations ==
  BothCalled /\ ValidHeader(link) /\ DistinctRelations(link) =>
    /\ info = infoPerm /\ nextPage = nextPagePerm
    /\ DOMAIN info.val = {link.parts[j][2].name : j \in 1..Len(link.parts)}
    /\ nextPage = InfoGet(info.val, "next")

C9_Witness == /\ BothCalled /\ ValidHeader(link) /\ DistinctRelations(link)
              /\ link # linkPerm
              /\ link.parts[1][2].name = "last"
              /\ nextPage = Int_(2)

\* C10: parsing an absent header and parsing the empty string both give the
\* empty cursor, no field set, and neither raises.
C10_NullAndEmpty ==
  link \in {NullLink, EmptyLink} =>
    /\ "parseLinkHeader" \in called => ~info.err /\ DOMAIN info.val = {}
    /\ "parseNextFromLink" \in called => nextPage = Undefined

C10_Witness == BothCalled /\ link = NullLink

\* an entry that cannot be read: fewer than two segments, or a URL that does
\* not parse
MalformedEntry(part) == Len(part) < 2 \/ ~UrlParses(part[1])

\* no other entry of h carries the relation name of entry j
OnlyCarrier(h, j) ==
  \A l \in 1..Len(h.parts) :
    l # j /\ Len(h.parts[l]) >= 2 => h.parts[l][2].name # h.parts[j][2].name

\* C11: parsing a Link header never raises; an entry with fewer than two
\* segments or with a malformed URL is dropped, and every well-formed entry of
\* the header, before or after it, is still recorded.
C11_MalformedDropped ==
  /\ "parseLinkHeader" \in called =>
       /\ ~info.err
       /\ \A j \in 1..Len(link.parts) :
            ValidEntry(link.parts[j]) /\ OnlyCarrier(link, j) =>
              InfoGet(info.val, link.parts[j][2].name) = ToNumber(link.parts[j][1].page)
       /\ \A r \in DOMAIN info.val :
            \E j \in 1..Len(link.parts) :
              /\ ~MalformedEntry(link.parts[j])
              /\ link.parts[j][2].name = r
              /\ PageNumOf(link.parts[j][1]) = info.val[r]
  /\ "parseNextFromLink" \in called =>
       /\ \A j \in 1..Len(link.parts) :
            /\ ValidEntry(link.parts[j]) /\ OnlyCarrier(link, j)
            /\ link.parts[j][2].name = "next"
            => nextPage = ToNumber(link.parts[j][1].page)
       /\ nextPage # Undefined =>
            \E j \in 1..Len(link.parts) :
              /\ ~MalformedEntry(link.parts[j])
              /\ link.parts[j][2].name = "next"
              /\ PageNumOf(link.parts[j][1]) = nextPage

C11_Witness ==
  /\ BothCalled /\ Len(link.parts) = 2 /\ link # linkPerm
  /\ link.parts[1] = <<BadUrlSec(<<"2">>), RelSec("next")>>
  /\ ValidEntry(link.parts[2]) /\ link.parts[2][2].name = "next"
  /\ info.val = ("next" :> Int_(3)) /\ infoPerm = info
  /\ nextPage = Int_(3) /\ nextPagePerm = nextPage

\* the entries <URL with page=p>; ...; rel="r": a URL part, then parameters of
\* which one is the rel, r a known relation and p a positive integer
RelSections(part) == {k \in 2..Len(part) : RelMatches(part[k])}

FormEntry(part) ==
  /\ Len(part) >= 2
  /\ UrlParses(part[1]) /\ part[1].hasPage /\ part[1].page # <<>>
  /\ ToNumber(part[1].page).k = "int" /\ ToNumber(part[1].page).v > 0
  /\ Cardinality(RelSections(part)) = 1
  /\ \A k \in RelSections(part) : part[k].name \in Relations
  /\ \A k \in 2..Len(part) : part[k].k \in {"rel", "param"}

RelOf(part) == part[CHOOSE k \in RelSections(part) : TRUE].name

FormHeader(h) ==
  /\ ~h.isNull
  /\ \A j \in 1..Len(h.parts) : FormEntry(h.parts[j])
  /\ \A j, l \in 1..Len(h.parts) : j # l => RelOf(h.parts[j]) # RelOf(h.parts[l])

\* C12 as stated: for a header of such entries the cursor maps each r to its
\* p and has no other field, also when the rel parameter is not the first
\* parameter after the URL part; the export route's parser returns the page
\* of the next entry.
C12_EachRelToItsPage ==
  FormHeader(link) =>
    /\ "parseLinkHeader" \in called =>
         /\ ~info.err
         /\ DOMAIN info.val = {RelOf(link.parts[j]) : j \in 1..Len(link.parts)}
         /\ \A j \in 1..Len(link.parts) :
              InfoGet(info.val, RelOf(link.parts[j])) = ToNumber(link.parts[j][1].page)
    /\ "parseNextFromLink" \in called =>
         \A j \in 1..Len(link.parts) :
           RelOf(link.parts[j]) = "next" => nextPage = ToNumber(link.parts[j][1].page)

(***************************************************************************)
(* CSV: what a reader of the file sees.                                    *)
(***************************************************************************)
\* the positions of s that survive the replacement of the newlines: all but
\* the LF of a CR LF pair
Kept(s) == {i \in 1..Len(s) : ~(s[i] = "LF" /\ i > 1 /\ s[i - 1] = "CR")}
NthKept(s, n) == CHOOSE i \in Kept(s) : Cardinality({l \in Kept(s) : l <= i}) = n

\* s with every LF, CR LF and CR replaced by one space
Collapsed(s) ==
  [n \in 1..Cardinality(Kept(s)) |->
     IF s[NthKept(s, n)] \in {"LF", "CR"} THEN " " ELSE s[NthKept(s, n)]]

Count(s, c) == Cardinality({i \in 1..Len(s) : s[i] = c})
HasSpecial(s) == \E i \in 1..Len(s) : s[i] \in {",", "\"", "LF", "CR"}

\* what is inside the quotes, each doubled quote read as one
RECURSIVE Undoubled(_)
Undoubled(s) ==
  IF s = <<>> THEN <<>>
  ELSE IF Len(s) >= 2 /\ s[1] = "\"" /\ s[2] = "\""
    THEN <<"\"">> \o Undoubled(SubSeq(s, 3, Len(s)))
  ELSE <<s[1]>> \o Undoubled(Tail(s))

\* out is t between double quotes, each quote of t doubled
QuotedForm(out, t) ==
  /\ Len(out) = Len(t) + Count(t, "\"") + 2
  /\ out[1] = "\"" /\ out[Len(out)] = "\""
  /\ Count(out, "\"") = 2 * Count(t, "\"") + 2
  /\ Undoubled(SubSeq(out, 2, Len(out) - 1)) = t

\* out is the escaped form of the string s
EscapedForm(out, s) ==
  IF HasSpecial(Collapsed(s)) THEN QuotedForm(out, Collapsed(s))
  ELSE out = Collapsed(s)

\* C13: a field is its string form with every LF, CR LF and CR replaced by a
\* single space, wrapped in double quotes with each inner quote doubled if and
\* only if that text contains a comma, a double quote or a newline, and
\* unchanged and unquoted otherwise; in the route's csvEscape and in the
\* dashboard's esc alike.
C13_QuotedIffSpecial ==
  "csvEscape" \in csvCalled /\ cell.t = "string" =>
    /\ EscapedForm(escaped, cell.s)
    /\ EscapedForm(escapedUi, cell.s)
    /\ ~Includes(escaped, "LF") /\ ~Includes(escaped, "CR")

C13_Witness ==
  /\ "csvEscape" \in csvCalled
  /\ cell = Str(<<"\"", "CR", "LF">>)
  /\ escaped = <<"\"", "\"", "\"", " ", "\"">>
  /\ escapedUi = escaped

\* the lines of a text, each ended by LF
RECURSIVE SplitLines(_, _)
SplitLines(s, cur) ==
  IF s = <<>> THEN (IF cur = <<>> THEN <<>> ELSE <<cur>>)
  ELSE IF s[1] = "LF" THEN <<cur>> \o SplitLines(Tail(s), <<>>)
  ELSE SplitLines(Tail(s), Append(cur, s[1]))

Lines(text) == SplitLines(text, <<>>)

\* the fields a CSV reader finds in a line: commas separate them outside
\* quotes, a doubled quote inside quotes is a quote
RECURSIVE SplitFields(_, _, _)
SplitFields(s, cur, inQuotes) ==
  IF s = <<>> THEN <<cur>>
  ELSE IF inQuotes
    THEN IF s[1] = "\""
           THEN IF Len(s) >= 2 /\ s[2] = "\""
                  THEN SplitFields(SubSeq(s, 3, Len(s)), Append(cur, "\""), TRUE)
                  ELSE SplitFields(Tail(s), cur, FALSE)
           ELSE SplitFields(Tail(s), Append(cur, s[1]), TRUE)
  ELSE IF s[1] = "," THEN <<cur>> \o SplitFields(Tail(s), <<>>, FALSE)
  ELSE IF s[1] = "\"" THEN SplitFields(Tail(s), cur, TRUE)
  ELSE SplitFields(Tail(s), Append(cur, s[1]), FALSE)

Fields(line) == SplitFields(line, <<>>, FALSE)

Absent(v) == v.t \in {"null", "undefined"}

\* the text a reader should find for the value v
Shown(v) ==
  IF Absent(v) THEN <<>>
  ELSE IF v.t = "number" THEN NatToStr(v.n)
  ELSE Collapsed(v.s)

\* the values behind the eight columns: of a raw record in the export route,
\* of a normalized item in the dashboard
RouteColumns(r) ==
  <<r.id, IF Absent(r.full_name) THEN r.name ELSE r.full_name, r.html_url, r.description,
    r.stargazers_count, r.language,
    IF r.owner.t = "object" THEN r.owner.login ELSE UndefinedVal,
    IF r.owner.t = "object" THEN r.owner.html_url ELSE UndefinedVal>>

\* the same with the full_name column read from full_name alone
RouteColumnsAsNamed(r) == [RouteColumns(r) EXCEPT ![2] = r.full_name]

UiColumns(r) ==
  <<r.id, r.full_name, r.html_url, r.description, r.stargazers_count, r.language,
    r.owner.login, r.owner.html_url>>

\* text has one line more than rs has records and ends with one newline
LineCount(text, rs) ==
  /\ Count(text, "LF") = Len(rs) + 1
  /\ Count(text, "CR") = 0
  /\ Len(Lines(text)) = Len(rs) + 1
  /\ text[Len(text)] = "LF" /\ text[Len(text) - 1] # "LF"

\* C14: for a list of N items the CSV has exactly N+1 lines, the header line
\* and then one line per item in input order, row i built from item i, and
\* ends with exactly one newline, whatever commas, quotes or newlines the
\* fields hold; in the route's toCSV and in the dashboard's toCSVFromRepos.
C14_OneLinePerItem ==
  /\ "toCSV" \in csvCalled =>
       /\ LineCount(csvText, repos)
       /\ \A j \in 1..Len(repos) :
            Fields(Lines(csvText)[j + 1])
              = [k \in 1..8 |-> Shown(RouteColumns(repos[j])[k])]
  /\ "toCSVFromRepos" \in csvCalled =>
       /\ LineCount(csvUiText, repos)
       /\ \A j \in 1..Len(repos) :
            Fields(Lines(csvUiText)[j + 1])
              = [k \in 1..8 |-> Shown(UiColumns(repos[j])[k])]

C14_Witness ==
  /\ csvCalled = {"csvEscape", "toCSV", "toCSVFromRepos"}
  /\ Len(repos) = 2
  /\ repos[1].id = NumVal(8) /\ repos[2].id = NumVal(7)
  /\ Count(csvText, "LF") = 3 /\ Count(csvUiText, "LF") = 3
  /\ Fields(Lines(csvText)[3])[4] = <<"He said ", "\"", "hi", "\"", ",", " ok">>
  /\ Fields(Lines(csvUiText)[2])[4] = <<"one", " ", "two", " ", "three">>

\* the header row of the export format
ExportColumns == << <<"id">>, <<"full_name">>, <<"url">>, <<"description">>, <<"stars">>,
                   <<"language">>, <<"owner_login">>, <<"owner_url">> >>

EightFields(text) ==
  \A j \in 2..Len(Lines(text)) : Len(Fields(Lines(text)[j])) = 8

\* C15 as stated: every CSV serializer of the program, the route's toCSV and
\* the dashboard's toCSVFromRepos, emits as first line the header row id,
\* full_name, url, description, stars, language, owner_login, owner_url, and
\* each data row has exactly 8 fields in that column order.
C15_FixedHeader ==
  /\ "toCSV" \in csvCalled =>
       /\ Fields(Lines(csvText)[1]) = ExportColumns
       /\ EightFields(csvText)
  /\ "toCSVFromRepos" \in csvCalled =>
       /\ Fields(Lines(csvUiText)[1]) = ExportColumns
       /\ EightFields(csvUiText)

\* line j+1 of text shows nothing for an absent value of cols, and shows the
\* text null or undefined only for a string that reads so
AbsentShownEmpty(text, j, cols) ==
  \A k \in 1..8 :
    /\ Absent(cols[k]) => Fields(Lines(text)[j + 1])[k] = <<>>
    /\ Fields(Lines(text)[j + 1])[k] \in {<<"null">>, <<"undefined">>} =>
         cols[k] = Str(Fields(Lines(text)[j + 1])[k])

\* C16 as stated: a null or absent value, a missing owner or a missing id
\* included, serializes to the empty string, and no field of a row is the
\* text null or undefined unless that is the string value of the source field.
C16_AbsentIsEmpty ==
  /\ "toCSV" \in csvCalled =>
       \A j \in 1..Len(repos) :
         AbsentShownEmpty(csvText, j, RouteColumnsAsNamed(repos[j]))
  /\ "toCSVFromRepos" \in csvCalled =>
       \A j \in 1..Len(repos) : AbsentShownEmpty(csvUiText, j, UiColumns(repos[j]))

\* C16 amended: the same, the full_name column of the export route being
\* filled from name when full_name is null or absent.
C16_AbsentIsEmptyButForName ==
  /\ "toCSV" \in csvCalled =>
       \A j \in 1..Len(repos) : AbsentShownEmpty(csvText, j, RouteColumns(repos[j]))
  /\ "toCSVFromRepos" \in csvCalled =>
       \A j \in 1..Len(repos) : AbsentShownEmpty(csvUiText, j, UiColumns(repos[j]))

C16_Witness ==
  /\ "toCSV" \in csvCalled /\ Len(repos) = 2
  /\ repos[1].id = UndefinedVal /\ repos[1].owner = NoOwner
  /\ repos[1].description = NullStr
  /\ repos[2].full_name = Str(<<"null">>)
  /\ Lines(csvText)[2] = <<",", "\"", "c", ",", "d", "\"", ",", "https://x/a/b", ",", ",">>
                           \o <<"4", "2", ",", ",", ",">>
  /\ Fields(Lines(csvText)[3])[2] = <<"null">>

(***************************************************************************)
(* The single-page endpoint and the export endpoint: what they answer.     *)
(***************************************************************************)
\* the raw records of the page a GET request was answered from
FetchedRecords == PageRecords(srv, RequestedPage(ToNumber(upLog[1].page)))

\* item is the field-wise image of the raw record r
ImageOf(item, r) ==
  /\ item.id = r.id
  /\ item.fullName = r.full_name
  /\ item.url = r.html_url
  /\ item.description = r.description
  /\ item.stars = r.stargazers_count
  /\ item.language = r.language
  /\ item.owner.login = r.owner.login
  /\ item.owner.avatarUrl = r.owner.avatar_url
  /\ item.owner.url = r.owner.html_url

\* C17: on a successful page response the item list has the length and the
\* order of the raw records, item i being the field-wise image of record i
\* (id, full_name, html_url, description, stargazers_count, language and the
\* owner's login, avatar_url and html_url), a null description or language
\* staying null.
C17_ItemsAreImages ==
  req.kind = "GET" /\ resp.ok =>
    /\ Len(resp.items) = Len(FetchedRecords)
    /\ \A j \in 1..Len(resp.items) : ImageOf(resp.items[j], FetchedRecords[j])

C17_Witness ==
  /\ req.kind = "GET" /\ resp.ok /\ Len(resp.items) = 2
  /\ resp.items[1].id = NumVal(2) /\ resp.items[1].description = NullStr
  /\ resp.items[2].id = NumVal(3) /\ resp.items[2].language = NullStr
  /\ resp.items[2].description # NullStr

\* the upstream requests for the page that srv answers with a failure
FailedRequests ==
  {j \in 1..Len(upLog) : RequestedPage(ToNumber(upLog[j].page)) = srv.failPage}

\* the endpoint has answered and the upstream had refused a page
UpstreamRefused ==
  /\ req.kind \in {"GET", "POST"}
  /\ srv.failKind = "status" /\ FailedRequests # {}
  /\ resp.status # 0

\* C18: when the upstream answers a page request with a non-success status s
\* and body b, the single-page endpoint and the export endpoint return a
\* failure with status s and a message holding b, make no further upstream
\* request, and return no items.
C18_RemoteErrorVerbatim ==
  /\ req.kind \in {"GET", "POST"} /\ srv.failKind = "status" =>
       FailedRequests \subseteq {Len(upLog)} /\ Cardinality(FailedRequests) <= 1
  /\ req.kind \in {"GET", "POST"} /\ srv.failKind = "status" /\ FailedRequests # {} =>
       resp.status # 0 /\ (req.kind = "POST" => post.pc = "done")
  /\ UpstreamRefused =>
       /\ resp.status = srv.failStatus /\ ~resp.ok
       /\ resp.error = Msg("GitHub API error", srv.failStatus, "upstream says no")
       /\ resp.items = <<>> /\ resp.count = 0
       /\ ~Written
       /\ req.kind = "POST" => post.exit = "upstream"

C18_Witness ==
  /\ req.kind = "POST" /\ post.pc = "done" /\ post.exit = "upstream"
  /\ Len(upLog) = 3 /\ post.all # <<>>
  /\ resp.status = 500 /\ resp.error.text = "upstream says no"

\* the number of records on the pages the requests of log were answered from
RECURSIVE ItemsFetched(_)
ItemsFetched(log) ==
  IF log = <<>> THEN 0
  ELSE Len(PageRecords(srv, RequestedPage(ToNumber(Head(log).page))))
       + ItemsFetched(Tail(log))

RequestedFormat == IF req.format = "absent" THEN "json" ELSE req.format

\* the data rows of stars.csv, the elements of stars.json
Entries(file) == IF file.fmt = "csv" THEN Count(file.data, "LF") - 1 ELSE Len(file.data)

Success2xx(status) == status \in 200..299

\* C19: a successful export answers ok=true with the requested format, the
\* location of the artifact and a count equal to the number of items
\* accumulated over all fetched pages, which is the number of data rows or
\* array elements written; every failing export (invalid body, invalid
\* format, upstream error, write error) answers with an error message and a
\* non-2xx status and never with ok=true.
C19_ExportResponse ==
  req.kind = "POST" /\ resp.status # 0 =>
    /\ post.pc = "done"
    /\ resp.ok =>
         /\ post.exit \in {"break", "cap"}
         /\ Success2xx(resp.status) /\ resp.error = NoMsg
         /\ resp.format = RequestedFormat /\ resp.format \in Formats
         /\ resp.path = DestPath(resp.format)
         /\ resp.count = ItemsFetched(upLog) /\ resp.count = Len(post.all)
         /\ files[resp.format].fmt = resp.format
         /\ Entries(files[resp.format]) = resp.count
    /\ ~resp.ok =>
         /\ post.exit \in {"invalid", "upstream", "throw", "writefail"}
         /\ resp.error # NoMsg /\ ~Success2xx(resp.status)
         /\ resp.count = 0 /\ resp.path = ""
    /\ post.exit \in {"invalid", "upstream", "throw", "writefail"} => ~resp.ok

C19_Witness ==
  /\ req.kind = "POST" /\ req.format = "csv" /\ post.pc = "done"
  /\ srv.len = 3 /\ resp.ok /\ resp.status = 200
  /\ resp.count = 5 /\ resp.format = "csv" /\ resp.path = "stars.csv"
  /\ Count(files["csv"].data, "LF") = 6

(***************************************************************************)
(* The two aggregation paths side by side.                                 *)
(***************************************************************************)
PostInLoop == post.pc = "loop"
PostPastLoop == post.pc \in {"write", "done"} /\ post.exit # "invalid"
FetchAllInLoop == fa.pc = "loop"
FetchAllPastLoop == fa.pc = "done" /\ fa.exit # "nouser"

\* C20 as stated: for the same upstream responses the export route's loop and
\* the load-all loop request the same sequence of page numbers, stop at the
\* same page and accumulate the same items in the same order.
C20_SamePath ==
  req.kind = "BOTH" =>
    /\ PostInLoop /\ FetchAllInLoop /\ post.i = fa.i =>
         post.page = fa.pg /\ fa.all = NormalizeAll(post.all)
    /\ PostPastLoop /\ FetchAllPastLoop =>
         /\ post.i = fa.i /\ post.page = fa.pg
         /\ fa.all = NormalizeAll(post.all)
         /\ (post.exit = "cap") = (fa.exit = "cap")

(***************************************************************************)
(* The dashboard's state while and after its handlers run.                 *)
(***************************************************************************)
\* the upstream requests of a load-all that were answered with a page
AnsweredRequests == (1..Len(upLog)) \ FailedRequests
LatestAnswered == CHOOSE j \in AnsweredRequests : \A k \in AnsweredRequests : k <= j

\* the rate object the endpoint makes of the headers of upstream page p
RateOfPage(p) ==
  [null |-> FALSE, limit |-> Int_(60), remaining |-> Int_(60 - (p % 60)),
   reset |-> NullNum]

\* C21: during a load-all the surfaced rate is overwritten on every successful
\* page: at every point, and when the load-all has ended, it is the rate of
\* the most recently fetched successful page; a failed page does not change it.
C21_RateOfLatestPage ==
  req.kind = "LOADALL" /\ fa.pc \in {"loop", "done"} =>
    rate = IF AnsweredRequests = {} THEN NullRate
           ELSE RateOfPage(RequestedPage(ToNumber(upLog[LatestAnswered].page)))

C21_Witness ==
  /\ req.kind = "LOADALL" /\ fa.pc = "done" /\ fa.exit = "error"
  /\ Len(upLog) = 3 /\ FailedRequests = {3}
  /\ rate = RateOfPage(2) /\ rate # RateOfPage(1)

\* no handler is waiting for a response
Quiet == \A k \in 1..Len(ops) : ~InFlight(ops[k])

\* the cursor is empty or the parse of the Link header of the response the
\* displayed items were taken from
CursorOfShownResponse ==
  \/ pageInfo = EmptyInfo
  \/ /\ origin.op # 0 /\ ops[origin.op].kind = "fetchPage"
     /\ ~items.null
     /\ pageInfo = ParseLinkParts(origin.link.parts, EmptyInfo)

\* the handler that ended last is a load-all
AfterLoadAll == lastDone # 0 /\ ops[lastDone].kind = "fetchAll"
\* ... and it left its loop by break or by the cap, not by an exception or
\* before the loop
LoadAllRanToEnd == AfterLoadAll /\ ops[lastDone].exit \in {"break", "cap", "error"}

\* C22 as stated: the cursor is only ever replaced: it is empty or exactly the
\* parse of the Link header of the one response that produced the displayed
\* items, and after a load-all it is empty.
C22_CursorReplaced ==
  /\ CursorOfShownResponse
  /\ AfterLoadAll => pageInfo = EmptyInfo

\* C22, amended: the cursor is empty or exactly the parse of the Link header
\* of the one response that produced the displayed items, and it is empty
\* after a load-all that left its loop by break or by the cap; a load-all
\* ended by an exception or by a failed export leaves the cursor as it was.
C22_CursorReplacedUnlessThrown ==
  /\ CursorOfShownResponse
  /\ LoadAllRanToEnd => pageInfo = EmptyInfo

C22_Witness ==
  /\ Len(ops) = 2 /\ Quiet /\ srv.len = 2
  /\ ops[1].kind = "fetchPage" /\ ops[1].exit = "ok" /\ ops[1].pg = Int_(1)
  /\ ops[2].kind = "fetchPage" /\ ops[2].exit = "ok" /\ ops[2].pg = Int_(2)
  /\ origin.op = 2
  /\ DOMAIN pageInfo = {"prev", "first"} /\ pageInfo["prev"] = Int_(1)

\* the items the endpoint makes of upstream pages got, page after page
RECURSIVE ItemsOfPages(_)
ItemsOfPages(got) ==
  IF got = <<>> THEN <<>>
  ELSE NormalizeAll(PageRecords(srv, Head(got))) \o ItemsOfPages(Tail(got))

LoadAlls == {k \in 1..Len(ops) : ops[k].kind = "fetchAll"}

\* C23: overlapping load-alls share no accumulator: each invocation's list
\* holds the items of the pages it fetched itself, page 1 onwards with none
\* left out, and the displayed list of a load-all is the whole list of exactly
\* one invocation.
C23_PrivateAccumulators ==
  /\ \A k \in LoadAlls :
       /\ ops[k].all = ItemsOfPages(ops[k].got)
       /\ \A n \in 1..Len(ops[k].got) : ops[k].got[n] = n
  /\ origin.op \in LoadAlls =>
       /\ ~InFlight(ops[origin.op])
       /\ items = ItemList(ops[origin.op].all)

C23_Witness ==
  /\ variant = "dashboard" /\ LoadAlls = {1, 2} /\ srv.len = 2
  /\ ops[1].pc = "loop" /\ ops[1].got = <<1>> /\ Len(ops[1].all) = 2
  /\ ops[2].pc = "done" /\ ops[2].got = <<1, 2>>
  /\ origin.op = 2 /\ Len(items.list) = 4 /\ loadingAll = FALSE

FetchPagesInFlight == {k \in 1..Len(ops) : ops[k].kind = "fetchPage" /\ InFlight(ops[k])}

\* C24 as stated: in both page variants loading is true whenever at least one
\* fetchPage is in flight, whatever the interleaving of Search, Prev/Next and
\* per-page changes.
C24_LoadingWhileInFlight == FetchPagesInFlight # {} => loading

\* the handlers that fetch items for display, and the one started last
DisplayOps == {k \in 1..Len(ops) : ops[k].kind \in {"fetchPage", "fetchAll"}}
Newest == CHOOSE k \in DisplayOps : \A n \in DisplayOps : n <= k
Succeeded(o) == o.exit \in {"ok", "break", "cap"}

\* C25 as stated: when fetches for display overlap, once every response has
\* arrived the displayed items, page, perPage and cursor are those of the
\* request that was started last, whatever the order of arrival.
C25_NewestRequestWins ==
  Quiet /\ DisplayOps # {} /\ (\A k \in DisplayOps : Succeeded(ops[k])) =>
    /\ origin.op = Newest
    /\ page = origin.pg /\ perPage = ops[Newest].pp
    /\ pageInfo = ParseLinkParts(origin.link.parts, EmptyInfo)

\* C26 as stated: whenever no request is in flight and the displayed list is
\* not empty, page and perPage are the page index and the page size of the
\* request whose response produced the list (a failed per-page change does not
\* leave another perPage behind), and page is an integer >= 1.
C26_RangeMatchesItems ==
  Quiet /\ items.list # <<>> =>
    /\ page = origin.pg /\ perPage = origin.pp
    /\ page.k = "int" /\ page.v >= 1

\* handler k of app/page.tsx learns in this step that its export has failed
ExportFails(k) ==
  /\ variant = "app" /\ k \in LoadAlls
  /\ ops[k].pc = "export" /\ ops'[k].pc = "done"

\* a Fetch All whose export has not succeeded has issued no /api/starred request
NoDisplayFetchBeforeExport ==
  variant = "app" =>
    \A k \in LoadAlls :
      ~ops[k].exported => /\ ops[k].pc \in {"export", "done"}
                          /\ ops[k].sent = 0 /\ ops[k].all = <<>>

\* C27: in app/page.tsx Fetch All awaits the export before any display fetch:
\* the display loop starts only after the export has succeeded, and when the
\* export fails no /api/starred request is issued and items, page, perPage,
\* cursor and rate stay as they were; only the error message and loadingAll
\* change.
C27_ExportBeforeDisplay ==
  /\ []NoDisplayFetchBeforeExport
  /\ [][\A k \in 1..Len(ops) :
          ExportFails(k) =>
            /\ UNCHANGED <<items, page, perPage, pageInfo, rate>>
            /\ error' # NoMsg /\ ~loadingAll'
            /\ ops'[k].sent = 0]_vars

C27_Witness ==
  /\ variant = "app" /\ Len(ops) = 2 /\ Quiet
  /\ ops[1].kind = "fetchPage" /\ ops[1].exit = "ok"
  /\ ops[2].kind = "fetchAll" /\ ops[2].exit = "noexport" /\ ops[2].sent = 0
  /\ origin.op = 1 /\ Len(items.list) = 2 /\ perPage = DefaultPerPage
  /\ error.kind = "export failed" /\ ~loadingAll

\* the busy flag a handler sets when it starts
Busy(kind) == IF kind = "fetchPage" THEN loading
              ELSE IF kind = "fetchAll" THEN loadingAll ELSE exporting

Started(k) == k <= Len(ops) /\ InFlight(ops[k])
Ended(k) == k <= Len(ops) /\ ~InFlight(ops[k])

\* C28: every started fetchPage, load-all and export clears its busy flag on
\* every outcome: once its responses have arrived (success, non-success
\* status or thrown error) the handler has ended with its flag false, and when
\* nothing is in flight loading, loadingAll and exporting are all false, so no
\* control stays disabled.
C28_BusyFlagsCleared ==
  /\ \A k \in 1..MaxOps : Started(k) ~> (Ended(k) /\ ~Busy(ops[k].kind))
  /\ [](Quiet => ~loading /\ ~loadingAll /\ ~exporting)

C28_Witness ==
  /\ Len(ops) = 2 /\ Quiet
  /\ ops[1].kind = "export" /\ ops[1].exit = "error"
  /\ ops[2].kind = "fetchAll" /\ ops[2].exit = "throw"
  /\ ~loading /\ ~loadingAll /\ ~exporting /\ error = Thrown.error

============================================================================
